---- MODULE Spec2Model ----
(***************************************************************************)
(* A model of wgrant/cba-statements: the card-style converter              *)
(* (cba-mc-pdf-to-csv.py), the account-style converter (cba-pdf-to-csv.py) *)
(* and the shared parsers (cbalib.py).                                     *)
(*                                                                         *)
(* Python values are modelled as follows.                                  *)
(*   str            a TLA+ string (Len, \o, SubSeq act on characters)      *)
(*   a table cell   Str(s), Num(s) (a float that is not NaN) or NaN;       *)
(*                  after normalisation Str(s), Num(s) or None             *)
(*   None           the record None                                        *)
(*   Decimal        Dec(s, c, e): sign s (1 is negative), coefficient c    *)
(*                  (the string of its digits, "0" for zero) and exponent  *)
(*                  e, the number (-1)^s * c * 10^e, as in                 *)
(*                  Decimal.as_tuple(); a record of kind "inf" (an         *)
(*                  infinity, c = "0"), "qnan" or "snan" (a quiet and a    *)
(*                  signalling NaN with the digits c of its payload, ""    *)
(*                  for none), with sign s                                 *)
(*   (month, day)   MD(m, d)                                               *)
(*   int or None    IntV(n) or None, for a variable that may hold None     *)
(*   datetime.date  a record [y, m, d]                                     *)
(* A function that can raise returns a record [ok, v]; ok = FALSE stands   *)
(* for the exception, which main never catches.                            *)
(***************************************************************************)
EXTENDS Integers, Sequences, FiniteSets, TLC

None == [k |-> "none"]
NaN == [k |-> "nan"]
Str(s) == [k |-> "str", v |-> s]
Num(s) == [k |-> "num", v |-> s]
Dec(s, c, e) == [k |-> "dec", s |-> s, c |-> c, e |-> e]
MD(m, d) == [k |-> "md", m |-> m, d |-> d]
IntV(n) == [k |-> "int", v |-> n]

Raise == [ok |-> FALSE]
Ok(x) == [ok |-> TRUE, v |-> x]

IsStr(x) == x.k = "str"

(***************************************************************************)
(* str methods                                                             *)
(***************************************************************************)
StartsWith(s, p) == Len(s) >= Len(p) /\ SubSeq(s, 1, Len(p)) = p

EndsWith(s, p) == Len(s) >= Len(p) /\ SubSeq(s, Len(s) - Len(p) + 1, Len(s)) = p

CharAt(s, i) == SubSeq(s, i, i)

\* the characters int() and decimal.Decimal() read as digits
DecimalDigits == {"0", "1", "2", "3", "4", "5", "6", "7", "8", "9"}

\* c.isdigit() holds of the decimal digits and the superscript digits (of
\* the characters with code points below 256)
\* s.isdigit(): non-empty and every character a digit
IsDigit(s) ==
    /\ Len(s) > 0
    /\ \A i \in 1..Len(s) : CharAt(s, i) \in DecimalDigits \cup {"²", "³", "¹"}

\* the characters decimal.Decimal() takes as whitespace (those of
\* str.isspace(), of the characters with code points below 256): \t, \n,
\* \r, \f, space and the characters 0x0b, 0x1c to 0x1f, 0x85, 0xa0
Whitespace ==
    {"\t", "\n", "\r", "\f", " ", "", "", "", "", "", "",
     " "}

\* s without the characters of ws at its two ends
Strip(s, ws) ==
    IF \A i \in 1..Len(s) : CharAt(s, i) \in ws THEN ""
    ELSE SubSeq(s,
                CHOOSE i \in 1..Len(s) :
                    CharAt(s, i) \notin ws
                    /\ \A h \in 1..(i - 1) : CharAt(s, h) \in ws,
                CHOOSE j \in 1..Len(s) :
                    CharAt(s, j) \notin ws
                    /\ \A h \in (j + 1)..Len(s) : CharAt(s, h) \in ws)

\* the value of a string of decimal digits
RECURSIVE IntOfDigits(_)
IntOfDigits(s) ==
    IF Len(s) = 0 THEN 0
    ELSE 10 * IntOfDigits(SubSeq(s, 1, Len(s) - 1))
         + CHOOSE d \in 0..9 : CharAt("0123456789", d + 1) = CharAt(s, Len(s))

\* s.replace(ch, ""), ch one character (by halves, to keep the recursion flat)
RECURSIVE Remove(_, _)
Remove(s, ch) ==
    IF Len(s) = 0 THEN ""
    ELSE IF Len(s) = 1 THEN (IF s = ch THEN "" ELSE s)
    ELSE Remove(SubSeq(s, 1, Len(s) \div 2), ch)
         \o Remove(SubSeq(s, Len(s) \div 2 + 1, Len(s)), ch)

\* int(s): whitespace around the literal is dropped (the whitespace of
\* Decimal() without the separators 0x1c to 0x1f); the literal is an optional
\* sign and decimal digits, with single underscores between digits;
\* ValueError otherwise
IntOf(s) ==
    LET t == Strip(s, Whitespace \ {"", "", "", ""})
        signed == Len(t) > 0 /\ CharAt(t, 1) \in {"-", "+"}
        body == IF signed THEN SubSeq(t, 2, Len(t)) ELSE t
        wellFormed ==
            /\ Len(body) > 0
            /\ \A i \in 1..Len(body) : CharAt(body, i) \in DecimalDigits \cup {"_"}
            /\ CharAt(body, 1) # "_" /\ CharAt(body, Len(body)) # "_"
            /\ \A i \in 1..(Len(body) - 1) : SubSeq(body, i, i + 1) # "__"
    IN  IF ~wellFormed THEN Raise
        ELSE IF CharAt(t, 1) = "-" THEN Ok(IntV(-IntOfDigits(Remove(body, "_"))))
        ELSE Ok(IntV(IntOfDigits(Remove(body, "_"))))

\* s.split(ch): the pieces between the occurrences of ch, empty ones kept
RECURSIVE Split(_, _)
Split(s, ch) ==
    IF \A i \in 1..Len(s) : CharAt(s, i) # ch THEN <<s>>
    ELSE LET i == CHOOSE j \in 1..Len(s) :
                     CharAt(s, j) = ch /\ \A h \in 1..(j - 1) : CharAt(s, h) # ch
         IN  <<SubSeq(s, 1, i - 1)>> \o Split(SubSeq(s, i + 1, Len(s)), ch)

\* sep.join(parts)
RECURSIVE Join(_, _)
Join(sep, parts) ==
    IF Len(parts) = 0 THEN ""
    ELSE IF Len(parts) = 1 THEN parts[1]
    ELSE parts[1] \o sep \o Join(sep, Tail(parts))

\* s.splitlines(): the pieces between the line boundaries, without a last
\* empty piece; the boundaries are the whitespace characters other than
\* tab, space, 0x1f and 0xa0, and "\r\n" is one boundary
RECURSIVE SplitLines(_)
SplitLines(s) ==
    LET breaks == Whitespace \ {"\t", " ", "", " "}
        i == CHOOSE j \in 1..Len(s) :
                 CharAt(s, j) \in breaks
                 /\ \A h \in 1..(j - 1) : CharAt(s, h) \notin breaks
        n == IF i < Len(s) /\ SubSeq(s, i, i + 1) = "\r\n" THEN i + 2 ELSE i + 1
    IN  IF \A j \in 1..Len(s) : CharAt(s, j) \notin breaks
        THEN (IF s = "" THEN <<>> ELSE <<s>>)
        ELSE <<SubSeq(s, 1, i - 1)>> \o SplitLines(SubSeq(s, n, Len(s)))

\* " ".join(desc.splitlines())
JoinLines(s) == Join(" ", SplitLines(s))

(***************************************************************************)
(* cbalib.parse_dd_mmm                                                     *)
(***************************************************************************)
\* list(calendar.month_abbr): entry 0 is the empty string
month_abbr ==
    <<"", "Jan", "Feb", "Mar", "Apr", "May", "Jun", "Jul", "Aug", "Sep", "Oct",
      "Nov", "Dec">>

\* list.index(x), 0-based; raises when x is absent
IndexOf(list, x) ==
    IF \E i \in 1..Len(list) : list[i] = x
    THEN Ok((CHOOSE i \in 1..Len(list) :
                list[i] = x /\ \A j \in 1..(i - 1) : list[j] # x) - 1)
    ELSE Raise

\* the two asserts on raw_day, day = int(raw_day), then (month, day)
DayMonth(raw_day, month) ==
    IF ~IsDigit(raw_day) THEN Raise
    ELSE IF Len(raw_day) # 2 THEN Raise
    ELSE IF ~IntOf(raw_day).ok THEN Raise
    ELSE IF ~month.ok THEN Raise
    ELSE Ok(MD(month.v, IntOf(raw_day).v.v))

\* raw_day, raw_month = parts raises unless there are two parts
UnpackDayMonth(parts) ==
    IF Len(parts) # 2 THEN Raise
    ELSE DayMonth(parts[1], IndexOf(month_abbr, parts[2]))

parse_dd_mmm(s) == UnpackDayMonth(Split(s, " "))

(***************************************************************************)
(* decimal.Decimal and the default context of its operations: prec 28,     *)
(* Emax 999999, Emin -999999, ROUND_HALF_EVEN, with InvalidOperation and   *)
(* Overflow trapped. A coefficient is the string of its digits, as in      *)
(* Decimal._int, and the arithmetic of the coefficients (Python ints of    *)
(* any size) is done on these strings.                                     *)
(***************************************************************************)
\* str(int(s)) of a non-empty string of digits: the leading zeros dropped
RECURSIVE StripZeros(_)
StripZeros(s) ==
    IF Len(s) > 1 /\ CharAt(s, 1) = "0" THEN StripZeros(Tail(s)) ELSE s

\* '0' * n (the empty string for n <= 0)
RECURSIVE Zeros(_)
Zeros(n) == IF n <= 0 THEN "" ELSE "0" \o Zeros(n - 1)

\* the digits of a + sgn * b + carry for the ints a and b given by their
\* digits, sgn 1 or -1 (a >= b when sgn = -1); leading zeros may be left
RECURSIVE DigitsSum(_, _, _, _)
DigitsSum(a, b, sgn, carry) ==
    IF a = "" /\ b = "" THEN (IF carry = 0 THEN "" ELSE ToString(carry))
    ELSE LET da == IF a = "" THEN 0 ELSE IntOfDigits(CharAt(a, Len(a)))
             db == IF b = "" THEN 0 ELSE IntOfDigits(CharAt(b, Len(b)))
             t == da + sgn * db + carry
             c == IF t < 0 THEN -1 ELSE IF t > 9 THEN 1 ELSE 0
         IN  DigitsSum(IF a = "" THEN "" ELSE SubSeq(a, 1, Len(a) - 1),
                       IF b = "" THEN "" ELSE SubSeq(b, 1, Len(b) - 1),
                       sgn, c)
             \o ToString(t - 10 * c)

\* a < b for the ints a and b given by their digits without leading zeros
DigitsLess(a, b) ==
    \/ Len(a) < Len(b)
    \/ /\ Len(a) = Len(b)
       /\ \E i \in 1..Len(a) :
             /\ SubSeq(a, 1, i - 1) = SubSeq(b, 1, i - 1)
             /\ IntOfDigits(CharAt(a, i)) < IntOfDigits(CharAt(b, i))

\* every character a decimal digit (the empty string included)
AllDecimal(s) == \A i \in 1..Len(s) : CharAt(s, i) \in DecimalDigits

\* the numeric literal digits [. digits] with at least one digit, parts its
\* pieces around ".", scaled by 10^x, x given by its sign (xneg) and the
\* digits xd of its magnitude; the exponent is x less the number of digits
\* after the point. An exponent of more than nine digits is kept as the
\* string of its digits, kind "far" (xs is its sign, 1 negative); the
\* construction is exact, and signals InvalidOperation beyond the largest
\* context: an adjusted exponent above 999999999999999999 or an exponent
\* below -1999999999999999997
DecimalOf(sign, parts, xneg, xd) ==
    IF Len(parts) > 2 THEN Raise
    ELSE LET frac == IF Len(parts) = 2 THEN parts[2] ELSE ""
             c == StripZeros(parts[1] \o frac)
             x == IF xneg THEN -IntOfDigits(xd) ELSE IntOfDigits(xd)
             far == StripZeros(DigitsSum(xd, ToString(Len(frac)),
                                         IF xneg THEN 1 ELSE -1, 0))
             adjusted == StripZeros(DigitsSum(far, ToString(Len(c) - 1), 1, 0))
         IN  IF parts[1] \o frac = "" \/ ~AllDecimal(parts[1] \o frac) THEN Raise
             ELSE IF Len(xd) <= 9 THEN Ok(Dec(sign, c, x - Len(frac)))
             ELSE IF xneg /\ DigitsLess("1999999999999999997", far) THEN Raise
             ELSE IF ~xneg /\ DigitsLess("999999999999999999", adjusted) THEN Raise
             ELSE Ok([k |-> "far", s |-> sign, c |-> c,
                      xs |-> IF xneg THEN 1 ELSE 0, e |-> far])

\* the literal after its sign, in lower case: inf, infinity, nan and snan
\* with an optional payload, or a numeric literal with an optional exponent
\* e [sign] digits
DecimalParts(sign, body) ==
    IF body \in {"inf", "infinity"} THEN Ok([k |-> "inf", s |-> sign, c |-> "0"])
    ELSE IF StartsWith(body, "nan") /\ AllDecimal(SubSeq(body, 4, Len(body)))
    THEN Ok([k |-> "qnan", s |-> sign,
             c |-> IF StripZeros(SubSeq(body, 4, Len(body))) = "0" THEN ""
                   ELSE StripZeros(SubSeq(body, 4, Len(body)))])
    ELSE IF StartsWith(body, "snan") /\ AllDecimal(SubSeq(body, 5, Len(body)))
    THEN Ok([k |-> "snan", s |-> sign,
             c |-> IF StripZeros(SubSeq(body, 5, Len(body))) = "0" THEN ""
                   ELSE StripZeros(SubSeq(body, 5, Len(body)))])
    ELSE LET ps == Split(body, "e")
             signed == Len(ps[2]) > 0 /\ CharAt(ps[2], 1) \in {"-", "+"}
             xd == IF signed THEN Tail(ps[2]) ELSE ps[2]
         IN  IF Len(ps) = 1 THEN DecimalOf(sign, Split(body, "."), FALSE, "0")
             ELSE IF Len(ps) > 2 \/ xd = "" \/ ~AllDecimal(xd) THEN Raise
             ELSE DecimalOf(sign, Split(ps[1], "."), CharAt(ps[2], 1) = "-",
                            StripZeros(xd))

\* Decimal(s): whitespace around the literal and every underscore are
\* dropped, the letters A to Z are read in either case (t is the literal in
\* lower case); InvalidOperation otherwise
Decimal(s) ==
    LET upper == "ABCDEFGHIJKLMNOPQRSTUVWXYZ"
        lower == "abcdefghijklmnopqrstuvwxyz"
        Low(ch) == IF \E i \in 1..26 : CharAt(upper, i) = ch
                   THEN CharAt(lower, CHOOSE i \in 1..26 : CharAt(upper, i) = ch)
                   ELSE ch
        u == Remove(Strip(s, Whitespace), "_")
        t == Join("", [i \in 1..Len(u) |-> Low(CharAt(u, i))])
    IN  IF Len(t) > 0 /\ CharAt(t, 1) \in {"-", "+"}
        THEN DecimalParts(IF CharAt(t, 1) = "-" THEN 1 ELSE 0, Tail(t))
        ELSE DecimalParts(0, t)

\* Decimal._fix: the context applied to the result x of an operation.
\* A NaN keeps the last prec digits of its payload, less their leading
\* zeros. A zero keeps its exponent within Etiny..Emax. A number whose
\* adjusted exponent exceeds Emax signals Overflow. A coefficient of more
\* than prec digits, or with digits below 10^Etiny, is rounded half to even
\* to the digits above exp_min (Underflow is not trapped): up when the first
\* digit dropped is 5 to 9, unless the digits dropped are exactly one half
\* and the last digit kept is even or none is kept; a carry into a digit
\* more than prec drops the last digit. With an exponent of kind "far" and a
\* coefficient of less than 10^8 digits, a number above 1 overflows and one
\* below 1 is rounded to zero
Fix(x) ==
    LET prec == 28
        Emax == 999999
        Etiny == -1000026
        Etop == 999972
        len == Len(x.c)
        lowest == len + x.e - prec
        exp_min == IF lowest < Etiny THEN Etiny ELSE lowest
        int == IF len + x.e - exp_min < 0 THEN "1" ELSE x.c
        digits == IF len + x.e - exp_min < 0 THEN 0 ELSE len + x.e - exp_min
        half == /\ CharAt(int, digits + 1) = "5"
                /\ SubSeq(int, digits + 2, Len(int)) = Zeros(Len(int) - digits - 1)
        up == /\ CharAt(int, digits + 1) \in {"5", "6", "7", "8", "9"}
              /\ ~(half /\ (digits = 0 \/ CharAt(int, digits) \in {"0", "2", "4", "6", "8"}))
        kept == IF digits = 0 THEN "0" ELSE SubSeq(int, 1, digits)
        coeff == IF up THEN StripZeros(DigitsSum(kept, "1", 1, 0)) ELSE kept
    IN  IF x.k \in {"qnan", "snan"}
        THEN Ok([x EXCEPT !.c = IF len <= prec THEN x.c
                                ELSE IF StripZeros(SubSeq(x.c, len - prec + 1, len)) = "0"
                                THEN ""
                                ELSE StripZeros(SubSeq(x.c, len - prec + 1, len))])
        ELSE IF x.k = "inf" THEN Ok(x)
        ELSE IF x.k = "far"
        THEN IF x.c = "0" THEN Ok(Dec(x.s, "0", IF x.xs = 1 THEN Etiny ELSE Emax))
             ELSE IF x.xs = 1 THEN Ok(Dec(x.s, "0", Etiny))
             ELSE Raise
        ELSE IF x.c = "0"
        THEN Ok(Dec(x.s, "0", IF x.e > Emax THEN Emax
                              ELSE IF x.e < Etiny THEN Etiny ELSE x.e))
        ELSE IF lowest > Etop THEN Raise
        ELSE IF x.e >= exp_min THEN Ok(x)
        ELSE IF Len(coeff) > prec
        THEN IF exp_min + 1 > Etop THEN Raise
             ELSE Ok(Dec(x.s, SubSeq(coeff, 1, prec), exp_min + 1))
        ELSE Ok(Dec(x.s, coeff, exp_min))

\* x.copy_negate()
CopyNegate(x) == [x EXCEPT !.s = 1 - x.s]

\* x + y: a signalling NaN signals InvalidOperation; a quiet NaN operand is
\* the result (the first one), then an infinite one, and the sum of opposite
\* infinities signals InvalidOperation. Two zeros give a zero with the
\* smaller exponent, negative only when both are. With one zero the other
\* operand is rescaled to the smaller exponent, but by no more than
\* prec + 1 digits. Else (_normalize) the operand with the smaller exponent
\* is replaced by 1 at exp when it lies wholly below exp, prec + 2 digits
\* below the top of the other (exp is at least one digit below it), the
\* other is padded to its exponent, and the coefficients are added or
\* subtracted; equal and opposite operands give the positive zero with the
\* smaller exponent. The context is applied to the result
DecAdd(x, y) ==
    LET prec == 28
        e == IF x.e <= y.e THEN x.e ELSE y.e
        tmp == IF x.e < y.e THEN y ELSE x
        other == IF x.e < y.e THEN x ELSE y
        exp == tmp.e + (IF Len(tmp.c) - prec - 2 < -1 THEN Len(tmp.c) - prec - 2
                        ELSE -1)
        clipped == Len(other.c) + other.e - 1 < exp
        other_int == IF clipped THEN "1" ELSE other.c
        other_exp == IF clipped THEN exp ELSE other.e
        tmp_int == tmp.c \o Zeros(tmp.e - other_exp)
        op1 == IF x.e < y.e THEN other_int ELSE tmp_int
        op2 == IF x.e < y.e THEN tmp_int ELSE other_int
    IN  IF x.k = "snan" \/ y.k = "snan" THEN Raise
        ELSE IF x.k = "qnan" THEN Fix(x)
        ELSE IF y.k = "qnan" THEN Fix(y)
        ELSE IF x.k = "inf" THEN (IF y.k = "inf" /\ x.s # y.s THEN Raise ELSE Ok(x))
        ELSE IF y.k = "inf" THEN Ok(y)
        ELSE IF x.c = "0" /\ y.c = "0"
        THEN Fix(Dec(IF x.s = 1 /\ y.s = 1 THEN 1 ELSE 0, "0", e))
        ELSE IF x.c = "0"
        THEN Fix(Dec(y.s, y.c \o Zeros(IF e > y.e - prec - 1 THEN y.e - e
                                       ELSE prec + 1),
                     IF e > y.e - prec - 1 THEN e ELSE y.e - prec - 1))
        ELSE IF y.c = "0"
        THEN Fix(Dec(x.s, x.c \o Zeros(IF e > x.e - prec - 1 THEN x.e - e
                                       ELSE prec + 1),
                     IF e > x.e - prec - 1 THEN e ELSE x.e - prec - 1))
        ELSE IF x.s = y.s THEN Fix(Dec(x.s, DigitsSum(op1, op2, 1, 0), other_exp))
        ELSE IF op1 = op2 THEN Fix(Dec(0, "0", e))
        ELSE IF DigitsLess(op1, op2)
        THEN Fix(Dec(y.s, StripZeros(DigitsSum(op2, op1, -1, 0)), other_exp))
        ELSE Fix(Dec(x.s, StripZeros(DigitsSum(op1, op2, -1, 0)), other_exp))

\* -x: a signalling NaN signals, a quiet NaN is the result, the negation of
\* a zero is the positive zero, and the context is applied
DecNeg(x) ==
    IF x.k = "snan" THEN Raise
    ELSE IF x.k = "qnan" THEN Fix(x)
    ELSE IF x.k = "dec" /\ x.c = "0" THEN Fix(Dec(0, "0", x.e))
    ELSE Fix(CopyNegate(x))

\* x - y: the NaN rules of the sum, else x + y.copy_negate()
DecSub(x, y) ==
    IF x.k = "snan" \/ y.k = "snan" THEN Raise
    ELSE IF x.k = "qnan" THEN Fix(x)
    ELSE IF y.k = "qnan" THEN Fix(y)
    ELSE DecAdd(x, CopyNegate(y))

\* x == y: a signalling NaN signals InvalidOperation and a quiet NaN equals
\* nothing; else the equality of the numbers, whatever the exponents and
\* the signs of zeros, with no context (Decimal._cmp: the signs, the
\* adjusted exponents, then the digits padded to one exponent)
DecEq(x, y) ==
    IF x.k = "snan" \/ y.k = "snan" THEN Raise
    ELSE IF x.k = "qnan" \/ y.k = "qnan" THEN Ok(FALSE)
    ELSE IF x.k = "inf" \/ y.k = "inf" THEN Ok(x.k = y.k /\ x.s = y.s)
    ELSE IF x.c = "0" \/ y.c = "0" THEN Ok(x.c = y.c)
    ELSE IF x.s # y.s THEN Ok(FALSE)
    ELSE IF x.e + Len(x.c) # y.e + Len(y.c) THEN Ok(FALSE)
    ELSE Ok(x.c \o Zeros(x.e - y.e) = y.c \o Zeros(y.e - x.e))

(***************************************************************************)
(* cbalib.parse_amount                                                     *)
(***************************************************************************)
\* the cr_dr step: (mul, s) after a trailing " CR"/" DR" is stripped
StripCrDr(s) ==
    IF EndsWith(s, " DR") THEN Ok(<<-1, SubSeq(s, 1, Len(s) - 3)>>)
    ELSE IF EndsWith(s, " CR") THEN Ok(<<1, SubSeq(s, 1, Len(s) - 3)>>)
    ELSE Raise

\* the allow_negative step: s[-1] and s[0] raise IndexError on ""
StripNegative(mul, s, negative_trailing) ==
    IF Len(s) = 0 THEN Raise
    ELSE IF negative_trailing
    THEN IF CharAt(s, Len(s)) = "-" THEN Ok(<<-1, SubSeq(s, 1, Len(s) - 1)>>)
         ELSE Ok(<<mul, s>>)
    ELSE IF CharAt(s, 1) = "-" THEN Ok(<<-1, Tail(s)>>)
         ELSE Ok(<<mul, s>>)

\* the leading_dollar step
StripDollar(s) ==
    IF Len(s) = 0 THEN Raise
    ELSE IF CharAt(s, 1) # "$" THEN Raise
    ELSE Ok(Tail(s))

\* return mul * decimal.Decimal(...) for the int mul in {1, -1}: the
\* product with a signalling NaN signals InvalidOperation, a quiet NaN is
\* unchanged, the sign of any other value, zero included, changes with
\* mul = -1, and the context is applied to the product
AmountValue(mul, dec) ==
    IF ~dec.ok THEN Raise
    ELSE IF dec.v.k = "snan" THEN Raise
    ELSE IF dec.v.k = "qnan" \/ mul = 1 THEN Fix(dec.v)
    ELSE Fix(CopyNegate(dec.v))

\* after the leading_dollar step (s3 is its result)
AmountAfterDollar(mul, s3) ==
    IF ~s3.ok THEN Raise ELSE AmountValue(mul, Decimal(Remove(s3.v, ",")))

\* after the allow_negative step (s2 is its result: mul and s)
AmountAfterNegative(s2, leading_dollar) ==
    IF ~s2.ok THEN Raise
    ELSE AmountAfterDollar(s2.v[1],
                           IF leading_dollar THEN StripDollar(s2.v[2])
                           ELSE Ok(s2.v[2]))

\* after the cr_dr step (s1 is its result: mul and s)
AmountAfterCrDr(s1, leading_dollar, allow_negative, negative_trailing) ==
    IF ~s1.ok THEN Raise
    ELSE AmountAfterNegative(IF allow_negative
                             THEN StripNegative(s1.v[1], s1.v[2], negative_trailing)
                             ELSE s1,
                             leading_dollar)

\* cell is the (normalised) cell passed as s: every str method or index on
\* None or on a float raises
parse_amount(cell, leading_dollar, allow_negative, negative_trailing, cr_dr) ==
    IF (allow_negative /\ cr_dr) \/ (~allow_negative /\ negative_trailing) THEN Raise
    ELSE IF ~IsStr(cell) THEN Raise
    ELSE AmountAfterCrDr(IF cr_dr THEN StripCrDr(cell.v) ELSE Ok(<<1, cell.v>>),
                         leading_dollar, allow_negative, negative_trailing)

(***************************************************************************)
(* Row normalisation (both programs): a NaN float cell becomes None        *)
(***************************************************************************)
Normalize(row) == [i \in 1..Len(row) |-> IF row[i] = NaN THEN None ELSE row[i]]

\* all(isinstance(x, str) for x in cells)
AllStr(cells) == \A i \in 1..Len(cells) : IsStr(cells[i])

\* "".join(cells), for cells that are all str
Concat(cells) == Join("", [i \in 1..Len(cells) |-> cells[i].v])

(***************************************************************************)
(* datetime.date and the ordering of (month, day) tuples                   *)
(***************************************************************************)
IsLeap(y) == (y % 4 = 0 /\ y % 100 # 0) \/ y % 400 = 0

DaysInMonth(y, m) ==
    IF m = 2 THEN (IF IsLeap(y) THEN 29 ELSE 28)
    ELSE IF m \in {4, 6, 9, 11} THEN 30 ELSE 31

\* datetime.date(y, m, d) raises ValueError outside the calendar
Date(y, m, d) ==
    IF m \in 1..12 /\ d >= 1 /\ d <= DaysInMonth(y, m)
    THEN Ok([y |-> y, m |-> m, d |-> d])
    ELSE Raise

\* variant for mutation analysis: the months alone are compared
MDLessMonthOnly(a, b) == a.m < b.m

\* (month, day) < last_month_day: the ordering of pairs
MDLess(a, b) == a.m < b.m \/ (a.m = b.m /\ a.d < b.d)

YearLow == 2000

YearHigh == 2100

\* variant for mutation analysis: the lower bound of the assert left out
YearInRangeNoLow(y) == y <= YearHigh

\* assert 2000 <= year <= 2100
YearInRange(y) == YearLow <= y /\ y <= YearHigh

(***************************************************************************)
(* cba-mc-pdf-to-csv.py (card-style): constants                            *)
(***************************************************************************)
CLOSING_PREFIX == "Closing balance at "

INTEREST_PREFIX == "Interest charged on "

\* The sentences of the source's list that a row of this module can equal.
\* The list of the source begins with another one, "How to pay We" followed
\* by U+00E2, U+20AC, U+2122 and "re here to help": no string here holds
\* U+2122, so on every row of this module the test on that sentence is false,
\* in the source as here, and the sentence is not in this list.
RAW_TRAILERS ==
    <<"Please check your transactions listed on this statement and report any discrepancy to the Bank before the payment due date.">>

TXN_HEADER == <<Str("Date"), Str("Transaction Details"), Str("Amount (A$)")>>

STATEMENT_HEADERS == {"Statement Period", "Statement period"}

\* [x.replace(" ", "") for x in RAW_TRAILERS]
CardTrailerKeys == {Remove(RAW_TRAILERS[i], " ") : i \in 1..Len(RAW_TRAILERS)}

\* variant for mutation analysis: the trailer is never recognised
CardIsTrailerNever(bits) == FALSE

\* the trailer test of the row loop
CardIsTrailer(bits) == AllStr(bits) /\ Remove(Concat(bits), " ") \in CardTrailerKeys

(***************************************************************************)
(* card-style parse_txns_from_df                                           *)
(***************************************************************************)
\* variant for mutation analysis: the assert left out
CardFragLimitOff(accum) == TRUE

\* assert len(accum) <= 3
CardFragLimit(accum) == Len(accum) <= 3

\* maybe_flush_frags: [ok, accum, txns_raw, emit]; emit lists the fragments
\* of the RawTransaction appended by this call (<<>> when none is)
maybe_flush_frags(accum, txns_raw) ==
    IF accum = <<>>
    THEN [ok |-> TRUE, accum |-> accum, txns_raw |-> txns_raw, emit |-> <<>>]
    ELSE IF ~CardFragLimit(accum) \/ \E i \in 1..Len(accum) : ~IsStr(accum[i][2])
    THEN [ok |-> FALSE, accum |-> accum, txns_raw |-> txns_raw, emit |-> <<>>]
    ELSE [ok |-> TRUE, accum |-> <<>>,
          txns_raw |-> Append(txns_raw,
                              <<accum[1][1],
                                Join("\n", [i \in 1..Len(accum) |-> accum[i][2].v]),
                                accum[1][3]>>),
          emit |-> accum]

\* the start-row test: bits[0] is not None or bits[1].startswith(...);
\* [ok, v]: startswith raises when bits[1] is not a str
CardIsStart(bits) ==
    IF bits[1] # None THEN Ok(TRUE)
    ELSE IF ~IsStr(bits[2]) THEN Raise
    ELSE Ok(StartsWith(bits[2].v, INTEREST_PREFIX))

\* variant for mutation analysis: the start row joins the open accumulation
CardStartRowJoin(header_found, accum, txns_raw, bits, fl) ==
    [ctl |-> "continue", header_found |-> header_found,
     accum |-> Append(accum, bits), txns_raw |-> txns_raw, emit |-> <<>>]

\* a start row: assert bits[2] is not None, flush (fl is what the flush
\* gives), append
CardStartRow(header_found, accum, txns_raw, bits, fl) ==
    IF bits[3] = None \/ ~fl.ok
    THEN [ctl |-> "raise", header_found |-> header_found, accum |-> accum,
          txns_raw |-> txns_raw, emit |-> <<>>]
    ELSE [ctl |-> "continue", header_found |-> header_found,
          accum |-> Append(fl.accum, bits), txns_raw |-> fl.txns_raw,
          emit |-> fl.emit]

\* variant for mutation analysis: assert accum != [] left out
CardContRowLoose(header_found, accum, txns_raw, bits) ==
    IF bits[3] # None
    THEN [ctl |-> "raise", header_found |-> header_found, accum |-> accum,
          txns_raw |-> txns_raw, emit |-> <<>>]
    ELSE [ctl |-> "continue", header_found |-> header_found,
          accum |-> Append(accum, bits), txns_raw |-> txns_raw, emit |-> <<>>]

\* a continuation row: two asserts, append
CardContRow(header_found, accum, txns_raw, bits) ==
    IF bits[3] # None \/ accum = <<>>
    THEN [ctl |-> "raise", header_found |-> header_found, accum |-> accum,
          txns_raw |-> txns_raw, emit |-> <<>>]
    ELSE [ctl |-> "continue", header_found |-> header_found,
          accum |-> Append(accum, bits), txns_raw |-> txns_raw, emit |-> <<>>]

\* a data row: start is what the start-row test gives
CardDataRow(header_found, accum, txns_raw, bits, start) ==
    IF ~start.ok
    THEN [ctl |-> "raise", header_found |-> header_found, accum |-> accum,
          txns_raw |-> txns_raw, emit |-> <<>>]
    ELSE IF start.v
    THEN CardStartRow(header_found, accum, txns_raw, bits,
                      maybe_flush_frags(accum, txns_raw))
    ELSE CardContRow(header_found, accum, txns_raw, bits)

\* variant for mutation analysis: rows are not skipped before the header
CardBitsNoSeek(header_found, accum, txns_raw, bits) ==
    IF bits = TXN_HEADER
    THEN [ctl |-> "continue", header_found |-> TRUE, accum |-> accum,
          txns_raw |-> txns_raw, emit |-> <<>>]
    ELSE IF CardIsTrailer(bits)
    THEN [ctl |-> "break", header_found |-> header_found, accum |-> accum,
          txns_raw |-> txns_raw, emit |-> <<>>]
    ELSE CardDataRow(header_found, accum, txns_raw, bits, CardIsStart(bits))

\* one iteration of the row loop on the normalised row: ctl tells how it
\* ends ("continue": the next row, "break", "raise")
CardBits(header_found, accum, txns_raw, bits) ==
    IF bits = TXN_HEADER
    THEN [ctl |-> "continue", header_found |-> TRUE, accum |-> accum,
          txns_raw |-> txns_raw, emit |-> <<>>]
    ELSE IF ~header_found
    THEN [ctl |-> "continue", header_found |-> header_found, accum |-> accum,
          txns_raw |-> txns_raw, emit |-> <<>>]
    ELSE IF CardIsTrailer(bits)
    THEN [ctl |-> "break", header_found |-> header_found, accum |-> accum,
          txns_raw |-> txns_raw, emit |-> <<>>]
    ELSE CardDataRow(header_found, accum, txns_raw, bits, CardIsStart(bits))

CardRow(header_found, accum, txns_raw, row) ==
    CardBits(header_found, accum, txns_raw, Normalize(row))

\* one pass of the conversion loop: (d, desc, value) of a raw transaction
CardConverted(desc, d, value) ==
    IF ~d.ok THEN [ok |-> FALSE, err |-> "DateFormatError"]
    ELSE IF ~value.ok THEN [ok |-> FALSE, err |-> "AmountFormatError"]
    ELSE [ok |-> TRUE, err |-> "", v |-> <<d.v, desc, value.v>>]

CardConvert(r) ==
    CardConverted(r[2],
                  IF StartsWith(r[2], INTEREST_PREFIX) THEN Ok(None)
                  ELSE IF ~IsStr(r[1]) THEN Raise
                  ELSE parse_dd_mmm(r[1].v),
                  parse_amount(r[3], FALSE, TRUE, TRUE, FALSE))

\* the conversion loop over txns_raw: conv holds the result of each pass,
\* the first pass that raises ends the loop; [ok, err, txns]
Converted(conv) ==
    IF \E i \in 1..Len(conv) : ~conv[i].ok
    THEN [ok |-> FALSE, txns |-> <<>>,
          err |-> conv[CHOOSE i \in 1..Len(conv) :
                          ~conv[i].ok /\ \A j \in 1..(i - 1) : conv[j].ok].err]
    ELSE [ok |-> TRUE, err |-> "", txns |-> [i \in 1..Len(conv) |-> conv[i].v]]

\* what follows the row loop: the last flush (fl is what it gives) and the
\* conversion loop (cv is what it gives); [ok, err, accum, txns_raw, emit, txns]
CardTailOf(fl, cv) ==
    IF ~fl.ok
    THEN [ok |-> FALSE, err |-> "FormatViolation", accum |-> fl.accum,
          txns_raw |-> fl.txns_raw, emit |-> fl.emit, txns |-> <<>>]
    ELSE [ok |-> cv.ok, err |-> cv.err, accum |-> fl.accum,
          txns_raw |-> fl.txns_raw, emit |-> fl.emit, txns |-> cv.txns]

CardConvertAll(txns_raw) ==
    Converted([i \in 1..Len(txns_raw) |-> CardConvert(txns_raw[i])])

CardTailFlushed(fl) == CardTailOf(fl, CardConvertAll(fl.txns_raw))

\* variant for mutation analysis: the last flush left out, the open
\* accumulation dropped
CardTailNoFlush(accum, txns_raw) ==
    CardTailFlushed([ok |-> TRUE, accum |-> <<>>, txns_raw |-> txns_raw,
                     emit |-> <<>>])

CardTail(accum, txns_raw) == CardTailFlushed(maybe_flush_frags(accum, txns_raw))

(***************************************************************************)
(* card-style validate_and_date_txns: one pass of the loop over txns.      *)
(* v is the validator's state [last_year, last_month_day, running_balance, *)
(* dated_txns]; the result is [ok, err, v].                                *)
(***************************************************************************)
\* last_year += 1 on a step backwards
CardNextYear(last_year, md, last_month_day) ==
    IF MDLess(md, last_month_day) THEN last_year + 1 ELSE last_year

\* variant for mutation analysis: the value added to the running balance
CardApplyAdd(running_balance, value) == DecAdd(running_balance, value)

\* running_balance -= value
CardApply(running_balance, value) == DecSub(running_balance, value)

\* the rest of the pass, once d and the year are known: the subtraction
\* (which signals InvalidOperation on equal infinities, x - y being
\* x + y.copy_negate(), and Overflow), the assert on the year, the date, the
\* negation
CardDated(v, desc, value, d, year, date) ==
    IF ~CardApply(v.running_balance, value).ok
    THEN [ok |-> FALSE, err |-> "AmountFormatError", v |-> v]
    ELSE IF ~YearInRange(year) \/ ~date.ok
    THEN [ok |-> FALSE, err |-> "DateFormatError", v |-> v]
    ELSE IF ~DecNeg(value).ok
    THEN [ok |-> FALSE, err |-> "AmountFormatError", v |-> v]
    ELSE [ok |-> TRUE, err |-> "",
          v |-> [last_year |-> IntV(year), last_month_day |-> d,
                 running_balance |-> CardApply(v.running_balance, value).v,
                 found_closing |-> FALSE,
                 dated_txns |-> Append(v.dated_txns,
                                       <<date.v, desc, DecNeg(value).v,
                                         CardApply(v.running_balance, value).v>>)]]

CardWithYear(v, desc, value, d, year) ==
    CardDated(v, desc, value, d, year, Date(year, d.m, d.d))

\* month, day = d raises when d is None
CardWithDate(v, desc, value, d) ==
    IF d = None THEN [ok |-> FALSE, err |-> "DateFormatError", v |-> v]
    ELSE CardWithYear(v, desc, value, d,
                      CardNextYear(v.last_year.v, d,
                                   IF v.last_month_day = None THEN d
                                   ELSE v.last_month_day))

CardValidateStep(v, txn, closing_date) ==
    CardWithDate(v, txn[2], txn[3],
                 IF txn[1] = None /\ StartsWith(txn[2], INTEREST_PREFIX)
                 THEN closing_date ELSE txn[1])

\* closing_balance == running_balance, the condition of the last assert
CardClosingCheck(closing_balance, running_balance) ==
    DecEq(closing_balance, running_balance)

(***************************************************************************)
(* card-style parse_balance_info_from_df and the statement period          *)
(***************************************************************************)
BALANCE_INFO_PREFIX_MAP ==
    <<<<"Opening balance at ", "opening">>, <<"New transactions and charges", "debits">>,
      <<"Payments/refunds", "credits">>, <<"Closing balance at ", "closing">>>>

\* the key of the last prefix of the map that bits[0] starts with, or None
BalanceKey(bits) ==
    LET hits == {i \in 1..Len(BALANCE_INFO_PREFIX_MAP) :
                    bits[1] # None /\ IsStr(bits[1])
                    /\ StartsWith(bits[1].v, BALANCE_INFO_PREFIX_MAP[i][1])}
    IN  IF hits = {} THEN None
        ELSE Str(BALANCE_INFO_PREFIX_MAP[CHOOSE i \in hits : \A j \in hits : j <= i][2])

\* info[key] = value
DictSet(info, key, value) ==
    [n \in (DOMAIN info) \cup {key} |-> IF n = key THEN value ELSE info[n]]

\* the closing-date assignment of a pass: info["closing_date"] = parse_dd_mmm(...)
BalanceClosing(info, date) ==
    IF ~date.ok THEN [ok |-> FALSE, err |-> "DateFormatError"]
    ELSE [ok |-> TRUE, err |-> "", v |-> DictSet(info, "closing_date", date.v)]

BalanceRowDate(info, bits) ==
    IF bits[1] # None /\ StartsWith(bits[1].v, CLOSING_PREFIX)
    THEN BalanceClosing(info,
                        parse_dd_mmm(SubSeq(bits[1].v, Len(CLOSING_PREFIX) + 1,
                                            Len(bits[1].v))))
    ELSE [ok |-> TRUE, err |-> "", v |-> info]

\* the amount assignment of a pass: info[key] = parse_amount(bits[1], ...)
BalanceRowAmount(info, bits, key, amount) ==
    IF ~amount.ok THEN [ok |-> FALSE, err |-> "AmountFormatError"]
    ELSE BalanceRowDate(DictSet(info, key.v, amount.v), bits)

BalanceRowKey(info, bits, key) ==
    IF key = None THEN BalanceRowDate(info, bits)
    ELSE BalanceRowAmount(info, bits, key,
                          parse_amount(bits[2], TRUE, TRUE, FALSE, FALSE))

\* one pass of the loop over the rows of the balance table: info is a
\* function from the keys set so far to their values; bits[0].startswith
\* raises when bits[0] is a float; [ok, err, v]
BalanceBits(info, bits) ==
    IF bits[1] # None /\ ~IsStr(bits[1]) THEN [ok |-> FALSE, err |-> "FormatViolation"]
    ELSE BalanceRowKey(info, bits, BalanceKey(bits))

BalanceRow(info, row) == BalanceBits(info, Normalize(row))

RECURSIVE BalanceRows(_, _)
BalanceRows(r, rows) ==
    IF ~r.ok \/ rows = <<>> THEN r
    ELSE BalanceRows(BalanceRow(r.v, rows[1]), Tail(rows))

\* {}: the empty dict
parse_balance_info_from_df(df) ==
    BalanceRows([ok |-> TRUE, err |-> "", v |-> [n \in {} |-> None]], df)

\* statement_period_header in STATEMENT_HEADERS,
\* opening_year = int(statement_period.split(" ")[2]), assert 2000 <= ... <= 2100
OpeningYearOf(statement_row, parts) ==
    IF statement_row[1] \notin STATEMENT_HEADERS THEN Raise
    ELSE IF Len(parts) < 3 THEN Raise
    ELSE IF ~IntOf(parts[3]).ok THEN Raise
    ELSE IF ~YearInRange(IntOf(parts[3]).v.v) THEN Raise
    ELSE Ok(IntOf(parts[3]).v.v)

ParseOpeningYear(statement_row) ==
    OpeningYearOf(statement_row, Split(statement_row[2], " "))

(***************************************************************************)
(* cba-pdf-to-csv.py (account-style): constants                            *)
(***************************************************************************)
RAW_TRAILER == "Opening balance - Total debits + Total credits = Closing balance"

SPECIAL_LINE_MAP ==
    <<<<"CREDIT INTEREST EARNED on this account", 2>>,
      <<"BONUS INTEREST EARNED on this account to", 2>>>>

BALANCE_ONLY_SUFFIXES == <<" OPENING BALANCE", "CLOSING BALANCE">>

ACCT_HEADER ==
    <<Str("Date"), Str("Transaction"), Str("Debit"), Str("Credit"), Str("Balance")>>

OPENING_SUFFIX == " OPENING BALANCE"

CLOSING_SUFFIX == " CLOSING BALANCE"

\* s.endswith(tuple), s.startswith(tuple)
EndsWithAny(s, sufs) == \E i \in 1..Len(sufs) : EndsWith(s, sufs[i])

StartsWithAny(s, prefs) == \E i \in 1..Len(prefs) : StartsWith(s, prefs[i])

\* SPECIAL_LINE_MAP.get(key, None)
SpecialGet(key) ==
    IF \E i \in 1..Len(SPECIAL_LINE_MAP) : SPECIAL_LINE_MAP[i][1] = key
    THEN IntV(SPECIAL_LINE_MAP[CHOOSE i \in 1..Len(SPECIAL_LINE_MAP) :
                                 SPECIAL_LINE_MAP[i][1] = key][2])
    ELSE None

\* tuple(SPECIAL_LINE_MAP.keys())
SpecialKeys == [i \in 1..Len(SPECIAL_LINE_MAP) |-> SPECIAL_LINE_MAP[i][1]]

\* the truth value of an int or None
Truthy(n) == n # None /\ n.v # 0

is_valid_credit_prefix(c) == Len(c) = 1 /\ (c \in {"-", "$"} \/ IsDigit(c))

(***************************************************************************)
(* account-style parse_txns_from_df: one iteration of the row loop         *)
(***************************************************************************)
\* variant for mutation analysis: no row is taken for a carried balance
AcctIsCarriedNever(bits) == FALSE

\* the two carried-balance tests
AcctIsCarried(bits) ==
    \/ /\ AllStr(SubSeq(bits, 3, 5))
       /\ StartsWith(Remove(Concat(SubSeq(bits, 3, 5)), " "), "BALANCECARRIEDFORWARD")
    \/ /\ IsStr(bits[2])
       /\ StartsWith(bits[2].v, "BALANCE BROUGHT FORWARD")

\* the trailer test
AcctIsTrailer(bits) ==
    /\ bits[1] = None
    /\ AllStr(SubSeq(bits, 2, 5))
    /\ Remove(Concat(SubSeq(bits, 2, 5)), " ") = Remove(RAW_TRAILER, " ")

\* the re-split of a merged date cell; [ok, v]: bits[1].endswith raises when
\* bits[1] is no str, len(bits[0]) when bits[0] is no str
AcctResplit(bits) ==
    IF ~IsStr(bits[2]) THEN Raise
    ELSE IF ~EndsWithAny(bits[2].v, BALANCE_ONLY_SUFFIXES) THEN Ok(bits)
    ELSE IF ~IsStr(bits[1]) THEN Raise
    ELSE IF Len(bits[1].v) = 8 /\ EndsWith(bits[1].v, "2")
    THEN Ok([bits EXCEPT ![1] = Str(SubSeq(bits[1].v, 1, 6)),
                         ![2] = Str("2" \o bits[2].v)])
    ELSE Ok(bits)

\* assert len(accum) <= 3
AcctFragLimit(accum) == Len(accum) <= 3

\* the date test: bits[0] is not None demands accum == [], else accum != []
AcctAccumAssert(bits, accum) ==
    IF bits[1] # None THEN accum = <<>> ELSE accum # <<>>

\* variant for mutation analysis: the lookup never starts a countdown
SpecialNextOff(got, special_lines) == special_lines

\* special_lines = SPECIAL_LINE_MAP.get(bits[1], None) or special_lines
SpecialNext(got, special_lines) == IF Truthy(got) THEN got ELSE special_lines

\* variant for mutation analysis: the value cells of the first fragment
AcctRawFirst(accum) ==
    <<accum[1][1], Join("\n", [i \in 1..Len(accum) |-> accum[i][2].v]),
      accum[1][3], accum[1][4], accum[1][5]>>

\* the RawTransaction built from the accumulation
AcctRaw(accum) ==
    <<accum[1][1], Join("\n", [i \in 1..Len(accum) |-> accum[i][2].v]),
      accum[Len(accum)][3], accum[Len(accum)][4], accum[Len(accum)][5]>>

\* the row loop's body after accum.append(bits): accum holds the row, sl is
\* special_lines after the lookup
AcctAppended(header_found, accum, txns_raw, sl, bits) ==
    IF Truthy(sl)
    THEN \* special_lines -= 1, then: if special_lines: continue
         IF sl.v - 1 # 0
         THEN [ctl |-> "continue", header_found |-> header_found, accum |-> accum,
               txns_raw |-> txns_raw, special_lines |-> IntV(sl.v - 1),
               emit |-> <<>>]
         ELSE IF ~AcctFragLimit(accum)
         THEN [ctl |-> "raise", header_found |-> header_found, accum |-> accum,
               txns_raw |-> txns_raw, special_lines |-> IntV(sl.v - 1),
               emit |-> <<>>]
         ELSE [ctl |-> "continue", header_found |-> header_found, accum |-> <<>>,
               txns_raw |-> Append(txns_raw, AcctRaw(accum)),
               special_lines |-> IntV(sl.v - 1), emit |-> accum]
    ELSE IF bits[5] = None
    THEN \* a line without balance: an error if it carries another value
         [ctl |-> IF SubSeq(bits, 3, 5) # <<None, None, None>> THEN "raise"
                  ELSE "continue",
          header_found |-> header_found, accum |-> accum, txns_raw |-> txns_raw,
          special_lines |-> sl, emit |-> <<>>]
    ELSE IF ~AcctFragLimit(accum)
    THEN [ctl |-> "raise", header_found |-> header_found, accum |-> accum,
          txns_raw |-> txns_raw, special_lines |-> sl, emit |-> <<>>]
    ELSE [ctl |-> "continue", header_found |-> header_found, accum |-> <<>>,
          txns_raw |-> Append(txns_raw, AcctRaw(accum)), special_lines |-> sl,
          emit |-> accum]

\* the row loop's body from the date test on: rs is what the re-split gives
AcctResplitted(header_found, accum, txns_raw, special_lines, rs) ==
    IF ~rs.ok
    THEN [ctl |-> "raise", header_found |-> header_found, accum |-> accum,
          txns_raw |-> txns_raw, special_lines |-> special_lines, emit |-> <<>>]
    ELSE IF ~AcctAccumAssert(rs.v, accum)
    THEN [ctl |-> "raise", header_found |-> header_found, accum |-> accum,
          txns_raw |-> txns_raw, special_lines |-> special_lines, emit |-> <<>>]
    ELSE AcctAppended(header_found, Append(accum, rs.v), txns_raw,
                      SpecialNext(SpecialGet(rs.v[2].v), special_lines), rs.v)

\* a row that is neither skipped, nor the header, nor the trailer
AcctDataRow(header_found, accum, txns_raw, special_lines, bits) ==
    AcctResplitted(header_found, accum, txns_raw, special_lines, AcctResplit(bits))

\* one iteration of the row loop on the normalised row
AcctBits(header_found, accum, txns_raw, special_lines, bits) ==
    IF AcctIsCarried(bits)
    THEN [ctl |-> "continue", header_found |-> header_found, accum |-> accum,
          txns_raw |-> txns_raw, special_lines |-> special_lines, emit |-> <<>>]
    ELSE IF bits = ACCT_HEADER
    THEN [ctl |-> "continue", header_found |-> TRUE, accum |-> accum,
          txns_raw |-> txns_raw, special_lines |-> special_lines, emit |-> <<>>]
    ELSE IF ~header_found
    THEN [ctl |-> "continue", header_found |-> header_found, accum |-> accum,
          txns_raw |-> txns_raw, special_lines |-> special_lines, emit |-> <<>>]
    ELSE IF AcctIsTrailer(bits)
    THEN [ctl |-> "break", header_found |-> header_found, accum |-> accum,
          txns_raw |-> txns_raw, special_lines |-> special_lines, emit |-> <<>>]
    ELSE AcctDataRow(header_found, accum, txns_raw, special_lines, bits)

AcctRow(header_found, accum, txns_raw, special_lines, row) ==
    AcctBits(header_found, accum, txns_raw, special_lines, Normalize(row))

(***************************************************************************)
(* account-style conversion loop: (d, desc, value, balance)                *)
(***************************************************************************)
\* a parsed amount as the value of the transaction, negated for a debit
AcctAmount(a, debit) ==
    IF ~a.ok THEN [ok |-> FALSE, err |-> "AmountFormatError"]
    ELSE IF debit /\ ~DecNeg(a.v).ok THEN [ok |-> FALSE, err |-> "AmountFormatError"]
    ELSE [ok |-> TRUE, err |-> "", v |-> IF debit THEN DecNeg(a.v).v ELSE a.v,
          no_balance |-> FALSE]

\* the value of a raw transaction, by the four branches of the conversion
\* loop; [ok, err, v, no_balance]. len(c) and r[3][0] raise on None.
AcctValue(r) ==
    IF EndsWithAny(r[2], BALANCE_ONLY_SUFFIXES)
    THEN IF r[3] = None /\ r[4] = None
         THEN [ok |-> TRUE, err |-> "", v |-> None, no_balance |-> FALSE]
         ELSE [ok |-> FALSE, err |-> "FormatViolation"]
    ELSE IF StartsWithAny(r[2], SpecialKeys)
    THEN IF r[3] = None /\ IsStr(r[4]) /\ is_valid_credit_prefix(r[4].v)
            /\ r[5] = None
         THEN [ok |-> TRUE, err |-> "", v |-> None, no_balance |-> TRUE]
         ELSE [ok |-> FALSE, err |-> "FormatViolation"]
    ELSE IF r[3] # None
    THEN IF IsStr(r[4]) /\ is_valid_credit_prefix(r[4].v)
         THEN AcctAmount(parse_amount(r[3], FALSE, FALSE, FALSE, FALSE), TRUE)
         ELSE [ok |-> FALSE, err |-> "FormatViolation"]
    ELSE IF IsStr(r[4]) /\ Len(r[4].v) > 0
            /\ is_valid_credit_prefix(CharAt(r[4].v, 1))
         THEN AcctAmount(parse_amount(Str(Tail(r[4].v)), FALSE, FALSE, FALSE, FALSE),
                         FALSE)
         ELSE [ok |-> FALSE, err |-> "FormatViolation"]

\* the balance of a raw transaction
AcctBalance(r, no_balance) ==
    IF no_balance THEN (IF r[5] = None THEN Ok(None) ELSE Raise)
    ELSE IF IsStr(r[5]) /\ r[5].v \in {"Nil", "$0.00"} THEN Ok(Dec(0, "0", -2))
    ELSE parse_amount(r[5], TRUE, FALSE, FALSE, TRUE)

AcctConvertedBalance(desc, d, value, balance) ==
    IF ~balance.ok THEN [ok |-> FALSE, err |-> "AmountFormatError"]
    ELSE [ok |-> TRUE, err |-> "", v |-> <<d.v, desc, value.v, balance.v>>]

AcctConverted(r, d, value) ==
    IF ~d.ok THEN [ok |-> FALSE, err |-> "DateFormatError"]
    ELSE IF ~value.ok THEN [ok |-> FALSE, err |-> value.err]
    ELSE AcctConvertedBalance(r[2], d, value, AcctBalance(r, value.no_balance))

\* one pass of the conversion loop
AcctConvert(r) ==
    AcctConverted(r, IF IsStr(r[1]) THEN parse_dd_mmm(r[1].v) ELSE Raise,
                  AcctValue(r))

AcctConvertAll(txns_raw) ==
    Converted([i \in 1..Len(txns_raw) |-> AcctConvert(txns_raw[i])])

\* assert accum == []
AcctTailAssert(accum) == accum = <<>>

\* what follows the row loop: assert accum == [] and the conversion loop
\* (cv is what it gives); [ok, err, txns]
AcctTailOf(accum, cv) ==
    IF ~AcctTailAssert(accum)
    THEN [ok |-> FALSE, err |-> "FormatViolation", txns |-> <<>>]
    ELSE cv

AcctTail(accum, txns_raw) == AcctTailOf(accum, AcctConvertAll(txns_raw))

(***************************************************************************)
(* account-style validate_and_date_txns: one pass of the loop over txns    *)
(***************************************************************************)
\* the check of an extracted balance against the running balance:
\* TRUE when the transaction must be refused (balance != running_balance
\* signals as == does)
AcctMismatch(balance, running_balance) ==
    IF balance = None THEN Ok(FALSE)
    ELSE IF ~DecEq(balance, running_balance).ok THEN Raise
    ELSE Ok(~DecEq(balance, running_balance).v)

\* the end of the pass: the range of the year, the date, the append
AcctDated(v, txn, ly, rb, closing, date) ==
    IF ~YearInRange(ly.v) \/ ~date.ok
    THEN [ok |-> FALSE, err |-> "DateFormatError", v |-> v]
    ELSE [ok |-> TRUE, err |-> "",
          v |-> [last_year |-> ly, last_month_day |-> txn[1],
                 running_balance |-> rb,
                 found_closing |-> (v.found_closing \/ closing),
                 dated_txns |-> Append(v.dated_txns,
                                       <<date.v, txn[2], txn[3], txn[4]>>)]]

\* variant for mutation analysis: the year of the closing label not compared
AcctClosingAnyYear(v, txn, ly, rb, cyear) ==
    IF ~cyear.ok THEN [ok |-> FALSE, err |-> "DateFormatError", v |-> v]
    ELSE IF txn[3] # None THEN [ok |-> FALSE, err |-> "FormatViolation", v |-> v]
    ELSE IF txn[4] # None /\ ~DecEq(txn[4], rb).ok
    THEN [ok |-> FALSE, err |-> "AmountFormatError", v |-> v]
    ELSE IF txn[4] = None \/ ~DecEq(txn[4], rb).v
    THEN [ok |-> FALSE, err |-> "BalanceMismatch", v |-> v]
    ELSE AcctDated(v, txn, ly, rb, TRUE, Date(ly.v, txn[1].m, txn[1].d))

\* the closing test: cyear is int(desc[: -len(" CLOSING BALANCE")])
AcctClosing(v, txn, ly, rb, cyear) ==
    IF ~cyear.ok THEN [ok |-> FALSE, err |-> "DateFormatError", v |-> v]
    ELSE IF cyear.v # ly THEN [ok |-> FALSE, err |-> "DateFormatError", v |-> v]
    ELSE IF txn[3] # None THEN [ok |-> FALSE, err |-> "FormatViolation", v |-> v]
    ELSE IF txn[4] # None /\ ~DecEq(txn[4], rb).ok
    THEN [ok |-> FALSE, err |-> "AmountFormatError", v |-> v]
    ELSE IF txn[4] = None \/ ~DecEq(txn[4], rb).v
    THEN [ok |-> FALSE, err |-> "BalanceMismatch", v |-> v]
    ELSE AcctDated(v, txn, ly, rb, TRUE, Date(ly.v, txn[1].m, txn[1].d))

\* the balance test, with the running balance rb after the amount is applied
AcctChecked(v, txn, ly, rb) ==
    IF ~AcctMismatch(txn[4], rb).ok
    THEN [ok |-> FALSE, err |-> "AmountFormatError", v |-> v]
    ELSE IF AcctMismatch(txn[4], rb).v
    THEN [ok |-> FALSE, err |-> "BalanceMismatch", v |-> v]
    ELSE IF EndsWith(txn[2], CLOSING_SUFFIX)
    THEN AcctClosing(v, txn, ly, rb,
                     IntOf(SubSeq(txn[2], 1, Len(txn[2]) - Len(CLOSING_SUFFIX))))
    ELSE AcctDated(v, txn, ly, rb, FALSE, Date(ly.v, txn[1].m, txn[1].d))

\* the year inference and the amount, with last_year ly, last_month_day lmd
\* and running_balance rb as the opening test leaves them; the addition
\* signals InvalidOperation on opposite infinities, and Overflow
AcctInferred(v, txn, ly, lmd, rb) ==
    IF txn[3] # None /\ ~DecAdd(rb, txn[3]).ok
    THEN [ok |-> FALSE, err |-> "AmountFormatError", v |-> v]
    ELSE AcctChecked(v, txn,
                     IF MDLess(txn[1], lmd) THEN IntV(ly.v + 1) ELSE ly,
                     IF txn[3] # None THEN DecAdd(rb, txn[3]).v ELSE rb)

\* the opening test: oyear is int(desc[: -len(" OPENING BALANCE")])
AcctOpening(v, txn, oyear) ==
    IF v.last_year # None THEN [ok |-> FALSE, err |-> "FormatViolation", v |-> v]
    ELSE IF ~oyear.ok THEN [ok |-> FALSE, err |-> "DateFormatError", v |-> v]
    ELSE IF txn[3] # None THEN [ok |-> FALSE, err |-> "FormatViolation", v |-> v]
    ELSE AcctInferred(v, txn, oyear.v, txn[1], txn[4])

\* txn is ((month, day), desc, value, balance)
AcctValidateStep(v, txn) ==
    IF EndsWith(txn[2], OPENING_SUFFIX)
    THEN AcctOpening(v, txn,
                     IntOf(SubSeq(txn[2], 1, Len(txn[2]) - Len(OPENING_SUFFIX))))
    ELSE IF v.last_year = None
    THEN [ok |-> FALSE, err |-> "FormatViolation", v |-> v]
    ELSE AcctInferred(v, txn, v.last_year, v.last_month_day, v.running_balance)

\* variant for mutation analysis: the last assert left out
AcctClosingCheckOff(found_closing) == TRUE

\* assert found_closing
AcctClosingCheck(found_closing) == found_closing

(***************************************************************************)
(* Output: one CSV row per dated transaction                               *)
(***************************************************************************)
Pad2(n) == IF n < 10 THEN "0" \o ToString(n) ELSE ToString(n)

\* date.isoformat(), for the years 1000..9999
IsoFormat(date) == ToString(date.y) \o "-" \o Pad2(date.m) \o "-" \o Pad2(date.d)

\* str(x) of a Decimal, and "" for None. A finite x: the digits ds of the
\* coefficient with the point after dotplace of them (fewer than six zeros
\* are put before them), in scientific notation when the exponent is
\* positive or the number is below 10^-6
DecStr(x) ==
    LET sign == IF x.s = 1 THEN "-" ELSE ""
        ds == x.c
        leftdigits == x.e + Len(ds)
        dotplace == IF x.e <= 0 /\ leftdigits > -6 THEN leftdigits ELSE 1
    IN  IF x = None THEN ""
        ELSE IF x.k = "inf" THEN sign \o "Infinity"
        ELSE IF x.k = "qnan" THEN sign \o "NaN" \o ds
        ELSE sign
             \o (IF dotplace <= 0 THEN "0." \o SubSeq("00000", 1, -dotplace) \o ds
                 ELSE IF dotplace >= Len(ds) THEN ds
                 ELSE SubSeq(ds, 1, dotplace) \o "." \o SubSeq(ds, dotplace + 1, Len(ds)))
             \o (IF leftdigits = dotplace THEN ""
                 ELSE IF leftdigits > dotplace
                 THEN "E+" \o ToString(leftdigits - dotplace)
                 ELSE "E-" \o ToString(dotplace - leftdigits))

\* the list handed to csvwriter.writerow
CsvRow(t) == <<IsoFormat(t[1]), JoinLines(t[2]), DecStr(t[3]), DecStr(t[4])>>

(***************************************************************************)
(* The inputs: what the table extractor can hand over                      *)
(***************************************************************************)
\* rows kept as fragments per document (a row is read while fewer are
\* kept), and tables (pages) per document
MaxFrags == 4

MaxTables == 2

CardHeaderRow == <<Str("Date"), Str("Transaction Details"), Str("Amount (A$)")>>

CardTrailerRow ==
    <<Str("Please check your transactions listed on this statement and"),
      Str("report any  discrepancy to the Bank before"),
      Str(" the payment due date.")>>

\* the trailer sentence in one cell, the other cells empty
CardTrailerOneCell ==
    <<NaN,
      Str("Please check your transactions listed on this statement and report any  discrepancy to the Bank before the payment due date."),
      NaN>>

CardRows ==
    {CardHeaderRow, CardTrailerRow, CardTrailerOneCell,
     <<Str("31 Dec"), Str("COFFEE SHOP"), Str("20.00")>>,
     <<Str("02 Jan"), Str("PAYMENT RECEIVED"), Str("5.00-")>>,
     <<NaN, Str("Interest charged on purchases"), Str("5.00")>>,
     <<NaN, Str("SYDNEY AU"), NaN>>,
     <<Str("03 Jan"), Str("NO AMOUNT"), NaN>>,
     <<NaN, Str("STRAY AMOUNT"), Str("3.00")>>,
     <<Str("04 Jan"), Str("FLOAT AMOUNT"), Num("7.5")>>}

StatementRows ==
    {<<"Statement Period", "20 Dec 2023 - 19 Jan 2024">>,
     <<"Statement Period", "20 Dec 1999 - 19 Jan 2000">>,
     <<"Statement Period", "20 Dec 2100 - 19 Jan 2101">>,
     <<"Account Number", "5123 4567 8901 2345">>}

BalanceTables ==
    {<<<<Str("Opening balance at 20 Dec"), Str("$100.00")>>,
       <<Str("New transactions and charges"), Str("$20.00")>>,
       <<Str("Payments/refunds"), Str("-$5.00")>>,
       <<Str("Closing balance at 19 Jan"), Str("$115.00")>>>>,
     <<<<Str("Opening balance at 20 Dec"), Str("$100.00")>>,
       <<Str("Closing balance at 19 Jan"), NaN>>>>,
     <<<<Str("Opening balance at 20 Dec"), Str("$100.00")>>,
       <<Str("Closing balance at 9 Jan"), Str("$115.00")>>>>}

AcctHeaderRow ==
    <<Str("Date"), Str("Transaction"), Str("Debit"), Str("Credit"), Str("Balance")>>

AcctTrailerRow ==
    <<NaN, Str("Opening balance"), Str("- Total  debits"), Str(" + Total credits"),
      Str("= Closing balance")>>

\* the trailer sentence spread over all five cells
AcctTrailerFiveCells ==
    <<Str("Opening balance"), Str("- Total debits"), Str("+ Total"), Str("credits ="),
      Str("Closing balance")>>

AcctRows ==
    {AcctHeaderRow, AcctTrailerRow, AcctTrailerFiveCells,
     <<Str("31 Dec"), Str("2023 OPENING BALANCE"), NaN, NaN, Str("$100.00 CR")>>,
     <<Str("31 Dec"), Str("1999 OPENING BALANCE"), NaN, NaN, Str("$100.00 CR")>>,
     <<Str("31 Dec 2"), Str("023 OPENING BALANCE"), NaN, NaN, Str("$100.00 CR")>>,
     <<Str("31 Dec"), Str("2100 OPENING BALANCE"), NaN, NaN, Str("$100.00 CR")>>,
     <<Str("02 Jan"), Str("COFFEE SHOP"), Str("20.00"), Str("$"), Str("$80.00 CR")>>,
     <<Str("02 Jan"), Str("COFFEE SHOP"), NaN, NaN, NaN>>,
     <<NaN, Str("SYDNEY AU"), NaN, NaN, NaN>>,
     <<NaN, Str("CARD 1234"), Str("20.00"), Str("$"), Str("$80.00 CR")>>,
     <<Str("06 Jan"), Str("SALARY"), NaN, Str("$5.00"), Str("$85.00 CR")>>,
     <<Str("05 Jan"), Str("2024 CLOSING BALANCE"), NaN, NaN, Str("$80.00 CR")>>,
     <<Str("03 Jan"), Str("CREDIT INTEREST EARNED on this account"), NaN, NaN, NaN>>,
     <<NaN, Str("to December 31, 2023 is $1.00"), NaN, Str("$"), NaN>>,
     <<NaN, NaN, Str("BALANCE CARRIED"), Str("FORWARD"), Str("$80.00 CR")>>,
     <<NaN, Str("BALANCE BROUGHT FORWARD"), NaN, NaN, Str("$80.00 CR")>>,
     <<NaN, Str("STRAY AMOUNT"), Str("3.00"), NaN, NaN>>}

(***************************************************************************)
(* The state                                                               *)
(***************************************************************************)
VARIABLES
    fmt,              \* which program runs: "card" or "acct"
    pc,               \* where main is
    err,              \* the kind of failure that ended the run, or ""
    opening_year,     \* card main: IntV(year), None before it is read
    balance_info,     \* card main: the dict of parse_balance_info_from_df
    ntables,          \* tables handed to parse_txns_from_df so far
    header_found, accum, txns_raw, special_lines,   \* parse_txns_from_df
    txns,             \* main: the transactions of the tables parsed so far
    last_year, last_month_day, running_balance, found_closing, dated_txns,
                      \* validate_and_date_txns
    out,              \* the CSV rows written
    frags,            \* history: per RawTransaction appended, its fragments
    last              \* history: the latest event of the row loop of this table

scan_vars == <<header_found, accum, txns_raw, special_lines>>

val_vars == <<last_year, last_month_day, running_balance, found_closing, dated_txns>>

ctx_vars == <<opening_year, balance_info>>

vars ==
    <<fmt, pc, err, opening_year, balance_info, ntables, header_found, accum,
      txns_raw, special_lines, txns, last_year, last_month_day, running_balance,
      found_closing, dated_txns, out, frags, last>>

EmptyDict == [n \in {} |-> None]

NoEvent ==
    [op |-> "none", row |-> <<>>, ctl |-> "", hf |-> FALSE, accum |-> <<>>,
     sl |-> None, emit |-> <<>>, tail |-> ""]

Init ==
    /\ fmt \in {"card", "acct"}
    /\ pc = IF fmt = "card" THEN "context" ELSE "tables"
    /\ err = ""
    /\ opening_year = None
    /\ balance_info = EmptyDict
    /\ ntables = 0
    /\ header_found = FALSE
    /\ accum = <<>>
    /\ txns_raw = <<>>
    /\ special_lines = None
    /\ txns = <<>>
    /\ last_year = None
    /\ last_month_day = None
    /\ running_balance = None
    /\ found_closing = FALSE
    /\ dated_txns = <<>>
    /\ out = <<>>
    /\ frags = <<>>
    /\ last = NoEvent

Fail(e) == pc' = "failed" /\ err' = e

(***************************************************************************)
(* card main: the statement period and the balance table                   *)
(***************************************************************************)
\* year is what the statement period gives, info what the balance table gives
CardContext(year, info) ==
    IF ~year.ok
    THEN Fail("DateFormatError") /\ UNCHANGED ctx_vars
    ELSE IF ~info.ok
    THEN /\ Fail(info.err)
         /\ opening_year' = IntV(year.v)
         /\ UNCHANGED balance_info
    ELSE /\ pc' = "tables"
         /\ opening_year' = IntV(year.v)
         /\ balance_info' = info.v
         /\ UNCHANGED err

CardReadContext ==
    /\ fmt = "card" /\ pc = "context"
    /\ \E statement_row \in StatementRows, balance_df \in BalanceTables :
          CardContext(ParseOpeningYear(statement_row),
                      parse_balance_info_from_df(balance_df))
    /\ UNCHANGED <<fmt, ntables, scan_vars, txns, val_vars, out, frags, last>>

(***************************************************************************)
(* main: for df in dfs: txns.extend(parse_txns_from_df(df))                *)
(***************************************************************************)
\* variant for mutation analysis: header_found outlives the call
NextTableKeepsHeader ==
    /\ pc = "tables"
    /\ ntables < MaxTables
    /\ ntables' = ntables + 1
    /\ pc' = "rows"
    /\ accum' = <<>>
    /\ txns_raw' = <<>>
    /\ special_lines' = None
    /\ last' = NoEvent
    /\ UNCHANGED <<fmt, err, ctx_vars, txns, val_vars, out, frags, header_found>>

\* the next table is handed to parse_txns_from_df, whose locals start afresh
NextTable ==
    /\ pc = "tables"
    /\ ntables < MaxTables
    /\ ntables' = ntables + 1
    /\ pc' = "rows"
    /\ header_found' = FALSE
    /\ accum' = <<>>
    /\ txns_raw' = <<>>
    /\ special_lines' = None
    /\ last' = NoEvent
    /\ UNCHANGED <<fmt, err, ctx_vars, txns, val_vars, out, frags>>

\* how an event of the row loop is recorded
Event(op, row, ctl, emit, tail) ==
    [op |-> op, row |-> row, ctl |-> ctl, hf |-> header_found, accum |-> accum,
     sl |-> special_lines, emit |-> emit, tail |-> tail]

Grow(fs, emit) == IF emit = <<>> THEN fs ELSE Append(fs, emit)

\* the rows kept so far: those of the RawTransactions and of the accumulation
RECURSIVE SumLen(_)
SumLen(fs) == IF fs = <<>> THEN 0 ELSE Len(fs[1]) + SumLen(Tail(fs))

Stored(fs, acc) == SumLen(fs) + Len(acc)

\* the row loop is left (break, or no row is left): the rest of
\* parse_txns_from_df runs (t is what it gives) and main extends txns
CardFinished(op, row, ctl, r, t) ==
    /\ header_found' = r.header_found
    /\ accum' = t.accum
    /\ txns_raw' = t.txns_raw
    /\ frags' = Grow(Grow(frags, r.emit), t.emit)
    /\ last' = Event(op, row, ctl, r.emit, IF t.ok THEN "ok" ELSE "raise")
    /\ IF t.ok
       THEN pc' = "tables" /\ txns' = txns \o t.txns /\ UNCHANGED err
       ELSE Fail(t.err) /\ UNCHANGED txns

CardFinish(op, row, ctl, r) ==
    CardFinished(op, row, ctl, r, CardTail(r.accum, r.txns_raw))

\* r is what one iteration of the row loop gives on row
CardScanned(row, r) ==
    /\ Stored(frags, accum) < MaxFrags
    /\ IF r.ctl = "break" THEN CardFinish("row", row, "break", r)
       ELSE /\ header_found' = r.header_found
            /\ accum' = r.accum
            /\ txns_raw' = r.txns_raw
            /\ frags' = Grow(frags, r.emit)
            /\ last' = Event("row", row, r.ctl, r.emit, "")
            /\ UNCHANGED txns
            /\ IF r.ctl = "raise" THEN Fail("FormatViolation")
               ELSE UNCHANGED <<pc, err>>

CardScanRow ==
    /\ fmt = "card" /\ pc = "rows"
    /\ \E row \in CardRows :
          CardScanned(row, CardRow(header_found, accum, txns_raw, row))
    /\ UNCHANGED <<fmt, ctx_vars, ntables, special_lines, val_vars, out>>

CardEndTable ==
    /\ fmt = "card" /\ pc = "rows"
    /\ CardFinish("eof", <<>>, "",
                  [header_found |-> header_found, accum |-> accum,
                   txns_raw |-> txns_raw, emit |-> <<>>])
    /\ UNCHANGED <<fmt, ctx_vars, ntables, special_lines, val_vars, out>>

AcctFinished(op, row, ctl, r, t) ==
    /\ header_found' = r.header_found
    /\ accum' = r.accum
    /\ txns_raw' = r.txns_raw
    /\ special_lines' = r.special_lines
    /\ frags' = Grow(frags, r.emit)
    /\ last' = Event(op, row, ctl, r.emit, IF t.ok THEN "ok" ELSE "raise")
    /\ IF t.ok
       THEN pc' = "tables" /\ txns' = txns \o t.txns /\ UNCHANGED err
       ELSE Fail(t.err) /\ UNCHANGED txns

AcctFinish(op, row, ctl, r) ==
    AcctFinished(op, row, ctl, r, AcctTail(r.accum, r.txns_raw))

AcctScanned(row, r) ==
    /\ Stored(frags, accum) < MaxFrags
    /\ IF r.ctl = "break" THEN AcctFinish("row", row, "break", r)
       ELSE /\ header_found' = r.header_found
            /\ accum' = r.accum
            /\ txns_raw' = r.txns_raw
            /\ special_lines' = r.special_lines
            /\ frags' = Grow(frags, r.emit)
            /\ last' = Event("row", row, r.ctl, r.emit, "")
            /\ UNCHANGED txns
            /\ IF r.ctl = "raise" THEN Fail("FormatViolation")
               ELSE UNCHANGED <<pc, err>>

AcctScanRow ==
    /\ fmt = "acct" /\ pc = "rows"
    /\ \E row \in AcctRows :
          AcctScanned(row, AcctRow(header_found, accum, txns_raw, special_lines, row))
    /\ UNCHANGED <<fmt, ctx_vars, ntables, val_vars, out>>

AcctEndTable ==
    /\ fmt = "acct" /\ pc = "rows"
    /\ AcctFinish("eof", <<>>, "",
                  [header_found |-> header_found, accum |-> accum,
                   txns_raw |-> txns_raw, special_lines |-> special_lines,
                   emit |-> <<>>])
    /\ UNCHANGED <<fmt, ctx_vars, ntables, val_vars, out>>

(***************************************************************************)
(* main: txns = validate_and_date_txns(...)                                *)
(***************************************************************************)
\* the arguments of the call, in their order (a missing key of balance_info
\* raises KeyError, a negation may signal), and the validator's first four
\* assignments
CardStartValidate ==
    /\ fmt = "card" /\ pc = "tables"
    /\ IF "opening" \notin DOMAIN balance_info
       THEN Fail("FormatViolation") /\ UNCHANGED val_vars
       ELSE IF ~DecNeg(balance_info["opening"]).ok
       THEN Fail("AmountFormatError") /\ UNCHANGED val_vars
       ELSE IF "closing" \notin DOMAIN balance_info
       THEN Fail("FormatViolation") /\ UNCHANGED val_vars
       ELSE IF ~DecNeg(balance_info["closing"]).ok
       THEN Fail("AmountFormatError") /\ UNCHANGED val_vars
       ELSE IF "closing_date" \notin DOMAIN balance_info
       THEN Fail("FormatViolation") /\ UNCHANGED val_vars
       ELSE /\ pc' = "validate"
            /\ last_year' = opening_year
            /\ last_month_day' = None
            /\ running_balance' = DecNeg(balance_info["opening"]).v
            /\ dated_txns' = <<>>
            /\ UNCHANGED <<err, found_closing>>
    /\ UNCHANGED <<fmt, ctx_vars, ntables, scan_vars, txns, out, frags, last>>

AcctStartValidate ==
    /\ fmt = "acct" /\ pc = "tables"
    /\ pc' = "validate"
    /\ last_year' = None
    /\ last_month_day' = None
    /\ found_closing' = FALSE
    /\ running_balance' = None
    /\ dated_txns' = <<>>
    /\ UNCHANGED <<fmt, err, ctx_vars, ntables, scan_vars, txns, out, frags, last>>

ValState ==
    [last_year |-> last_year, last_month_day |-> last_month_day,
     running_balance |-> running_balance, found_closing |-> found_closing,
     dated_txns |-> dated_txns]

SetValState(v) ==
    /\ last_year' = v.last_year
    /\ last_month_day' = v.last_month_day
    /\ running_balance' = v.running_balance
    /\ found_closing' = v.found_closing
    /\ dated_txns' = v.dated_txns

\* r is what one pass of the validator's loop gives
Validated(r) ==
    IF r.ok THEN SetValState(r.v) /\ UNCHANGED <<pc, err>>
    ELSE Fail(r.err) /\ UNCHANGED val_vars

\* one pass of the validator's loop, on the next transaction
CardValidateTxn ==
    /\ fmt = "card" /\ pc = "validate"
    /\ Len(dated_txns) < Len(txns)
    /\ Validated(CardValidateStep(ValState, txns[Len(dated_txns) + 1],
                                  balance_info["closing_date"]))
    /\ UNCHANGED <<fmt, ctx_vars, ntables, scan_vars, txns, out, frags, last>>

AcctValidateTxn ==
    /\ fmt = "acct" /\ pc = "validate"
    /\ Len(dated_txns) < Len(txns)
    /\ Validated(AcctValidateStep(ValState, txns[Len(dated_txns) + 1]))
    /\ UNCHANGED <<fmt, ctx_vars, ntables, scan_vars, txns, out, frags, last>>

\* the loop is over: the last assert, the return, and main reaches the
\* CSV loop, which is over at once when there is nothing to write
Accepted == IF dated_txns = <<>> THEN "done" ELSE "write"

CardValidateEnd ==
    /\ fmt = "card" /\ pc = "validate"
    /\ Len(dated_txns) = Len(txns)
    /\ IF ~CardClosingCheck(DecNeg(balance_info["closing"]).v, running_balance).ok
       THEN Fail("AmountFormatError")
       ELSE IF CardClosingCheck(DecNeg(balance_info["closing"]).v, running_balance).v
       THEN pc' = Accepted /\ UNCHANGED err
       ELSE Fail("BalanceMismatch")
    /\ UNCHANGED <<fmt, ctx_vars, ntables, scan_vars, txns, val_vars, out, frags,
                   last>>

AcctValidateEnd ==
    /\ fmt = "acct" /\ pc = "validate"
    /\ Len(dated_txns) = Len(txns)
    /\ IF AcctClosingCheck(found_closing)
       THEN pc' = Accepted /\ UNCHANGED err
       ELSE Fail("BalanceMismatch")
    /\ UNCHANGED <<fmt, ctx_vars, ntables, scan_vars, txns, val_vars, out, frags,
                   last>>

(***************************************************************************)
(* main: the CSV loop, one csvwriter.writerow per pass                     *)
(***************************************************************************)
\* variant for mutation analysis: rows written while the validator runs
CanWriteEarly == pc \in {"write", "validate"} /\ Len(out) < Len(dated_txns)

\* where main may write a row
CanWrite == pc = "write" /\ Len(out) < Len(dated_txns)

WriteRow ==
    /\ CanWrite
    /\ out' = Append(out, CsvRow(dated_txns[Len(out) + 1]))
    /\ pc' = IF pc = "write" /\ Len(out) + 1 = Len(dated_txns) THEN "done" ELSE pc
    /\ UNCHANGED <<fmt, err, ctx_vars, ntables, scan_vars, txns, val_vars, frags,
                   last>>

Next ==
    \/ CardReadContext
    \/ NextTable
    \/ CardScanRow
    \/ CardEndTable
    \/ AcctScanRow
    \/ AcctEndTable
    \/ CardStartValidate
    \/ AcctStartValidate
    \/ CardValidateTxn
    \/ AcctValidateTxn
    \/ CardValidateEnd
    \/ AcctValidateEnd
    \/ WriteRow

Spec == Init /\ [][Next]_vars

(***************************************************************************)
(* Documents of one table, taken from the end of its row loop: the date    *)
(* cell and the value cells of one transaction row range over the strings  *)
(* the extractor can hand over, and the rest of the program runs on them   *)
(* (the last flush, the conversion loop, the validator, the CSV loop).     *)
(***************************************************************************)
\* date cells: a day token, a separator, a month token
CaseDates ==
    {day \o sep \o month :
        day \in {"05", "5", "005", "0a", "", "31", "32", "00"},
        sep \in {" ", "", "  "},
        month \in {"Jan", "Feb", "Mar", "Apr", "May", "Jun", "Jul", "Aug", "Sep",
                   "Oct", "Nov", "Dec", "", "jan", "Foo", "January"}}

\* card-style: main has read the statement period and the balance table,
\* and the row loop has taken the header and one dated row with an amount
CaseCardInit ==
    /\ fmt = "card"
    /\ opening_year =
          IntV(ParseOpeningYear(<<"Statement Period", "01 Jan 2024 - 06 Jan 2024">>).v)
    /\ \E balances \in {<<"$100.00", "$80.00">>, <<"$100.00", "$120.00">>,
                         <<"$Infinity", "$Infinity">>} :
          balance_info =
              parse_balance_info_from_df(
                  <<<<Str("Opening balance at 01 Jan"), Str(balances[1])>>,
                    <<Str("Closing balance at 06 Jan"), Str(balances[2])>>>>).v
    /\ \E date \in CaseDates,
          amount \in {"-$20.00", "20.00-", "20.00", "-20.00", "1e1000000"} :
          /\ accum = <<<<Str(date), Str("desc"), Str(amount)>>>>
          /\ last = [op |-> "row", row |-> <<Str(date), Str("desc"), Str(amount)>>,
                     ctl |-> "continue", hf |-> TRUE, accum |-> <<>>, sl |-> None,
                     emit |-> <<>>, tail |-> ""]
    /\ txns_raw = <<>>
    /\ frags = <<>>

\* account-style: the row loop has taken the header and one dated row with
\* its values between the opening and the closing marker (or with no opening
\* marker before it, or two), one RawTransaction each; doc holds the
\* balances of the two markers and the values of the row
CaseAcctInit ==
    /\ fmt = "acct"
    /\ opening_year = None
    /\ balance_info = EmptyDict
    /\ accum = <<>>
    /\ \E date \in CaseDates,
          doc \in {<<"$100.00 CR", "$80.00 CR",
                     <<Str("20.00"), Str("$"), Str("$80.00 CR")>>>>,
                   <<"$100.00 CR", "$80.00 CR",
                     <<Str("-$20.00"), Str("$"), Str("$80.00 CR")>>>>,
                   <<"$100.00 CR", "$80.00 CR",
                     <<Str("20.00"), Str("$"), Str("$80.00")>>>>,
                   <<"$100.00 CR", "$80.00 CR",
                     <<Str("20.00"), Str("$"), Str("$79.99 CR")>>>>,
                   <<"$1E+30 CR", "$1E+30 CR",
                     <<Str("20.00"), Str("$"), Str("$1E+30 CR")>>>>},
          openings \in 0..2 :
          /\ frags =
                [i \in 1..openings |->
                    <<<<Str("01 Jan"), Str("2024 OPENING BALANCE"), None, None,
                        Str(doc[1])>>>>]
                \o <<<<<<Str(date), Str("desc")>> \o doc[3]>>,
                     <<<<Str("06 Jan"), Str("2024 CLOSING BALANCE"), None, None,
                         Str(doc[2])>>>>>>
          /\ txns_raw = [i \in 1..Len(frags) |-> AcctRaw(frags[i])]
          /\ last = [op |-> "row",
                     row |-> <<Str("06 Jan"), Str("2024 CLOSING BALANCE"), NaN, NaN,
                               Str(doc[2])>>,
                     ctl |-> "continue", hf |-> TRUE, accum |-> <<>>, sl |-> None,
                     emit |-> frags[Len(frags)], tail |-> ""]

CaseInit ==
    /\ pc = "rows"
    /\ err = ""
    /\ ntables = 1
    /\ header_found = TRUE
    /\ special_lines = None
    /\ txns = <<>>
    /\ last_year = None
    /\ last_month_day = None
    /\ running_balance = None
    /\ found_closing = FALSE
    /\ dated_txns = <<>>
    /\ out = <<>>
    /\ (CaseCardInit \/ CaseAcctInit)

\* the one table is the last: no NextTable
CaseNext ==
    \/ CardEndTable
    \/ AcctEndTable
    \/ CardStartValidate
    \/ AcctStartValidate
    \/ CardValidateTxn
    \/ AcctValidateTxn
    \/ CardValidateEnd
    \/ AcctValidateEnd
    \/ WriteRow

CaseSpec == CaseInit /\ [][CaseNext]_vars

(***************************************************************************)
(* Properties                                                              *)
(***************************************************************************)
\* main has passed the validator: it is in or past the CSV loop
IsAccepted == pc \in {"write", "done"}

\* the sum of the numbers x and y, every digit kept: no context is applied
\* to it (with a NaN or an infinity among them, what x + y gives)
ExactSum(x, y) ==
    LET e == IF x.e <= y.e THEN x.e ELSE y.e
        a == StripZeros(x.c \o Zeros(x.e - e))
        b == StripZeros(y.c \o Zeros(y.e - e))
    IN  IF x.k # "dec" \/ y.k # "dec" THEN DecAdd(x, y).v
        ELSE IF x.s = y.s THEN Dec(x.s, DigitsSum(a, b, 1, 0), e)
        ELSE IF a = b THEN Dec(0, "0", e)
        ELSE IF DigitsLess(a, b) THEN Dec(y.s, StripZeros(DigitsSum(b, a, -1, 0)), e)
        ELSE Dec(x.s, StripZeros(DigitsSum(a, b, -1, 0)), e)

\* the sum of the amounts of the first n dated transactions (None counts
\* 0), every digit kept
RECURSIVE SumAmounts(_, _)
SumAmounts(ts, n) ==
    IF n = 0 THEN Dec(0, "0", 0)
    ELSE IF ts[n][3] = None THEN SumAmounts(ts, n - 1)
    ELSE ExactSum(SumAmounts(ts, n - 1), ts[n][3])

\* the pair ordering of the resolved (month, day) of two dates
DateMDLess(a, b) == a.m < b.m \/ (a.m = b.m /\ a.d < b.d)

\* C1: card-style, for every accepted document the sum of the emitted signed
\* amounts equals closing_balance - opening_balance, the two values handed
\* to the validator (a difference that is defined), and the running balance
\* after the last transaction equals the closing balance, exactly.
C1_CardSumIsClosingMinusOpening ==
    (fmt = "card" /\ IsAccepted) =>
        /\ DecSub(DecNeg(balance_info["closing"]).v,
                  DecNeg(balance_info["opening"]).v).ok
        /\ DecEq(SumAmounts(dated_txns, Len(dated_txns)),
                 DecSub(DecNeg(balance_info["closing"]).v,
                        DecNeg(balance_info["opening"]).v).v).v
        /\ DecEq(running_balance, DecNeg(balance_info["closing"]).v).v
        /\ dated_txns # <<>> =>
              DecEq(dated_txns[Len(dated_txns)][4],
                    DecNeg(balance_info["closing"]).v).v

\* C2: account-style, for every accepted sequence the running balance at the
\* end of the sequence (the opening marker's balance plus every signed
\* amount, those after the CLOSING BALANCE marker too) equals the balance
\* extracted on the CLOSING BALANCE marker.
C2_AcctEndBalanceIsClosing ==
    (fmt = "acct" /\ IsAccepted) =>
        \A i \in 1..Len(dated_txns) :
            EndsWith(dated_txns[i][2], CLOSING_SUFFIX) =>
                DecEq(ExactSum(dated_txns[1][4],
                               SumAmounts(dated_txns, Len(dated_txns))),
                      dated_txns[i][4]).v

\* C3: no CSV row is written unless every table was scanned and the whole
\* validation passed; a run that failed has written nothing.
C3_NoOutputBeforeValidated ==
    /\ pc = "failed" => out = <<>>
    /\ out # <<>> =>
          /\ IsAccepted
          /\ Len(dated_txns) = Len(txns)
          /\ fmt = "card" =>
                DecEq(DecNeg(balance_info["closing"]).v, running_balance).v
          /\ fmt = "acct" => found_closing
    /\ \A i \in 1..Len(out) : out[i] = CsvRow(dated_txns[i])

\* the first row of an accepted account-style document is written, more follow
C3_Witness ==
    fmt = "acct" /\ pc = "write" /\ Len(out) = 1 /\ Len(dated_txns) = 3

\* C4: of two consecutive dated transactions, the second has the year of the
\* first plus one when its (month, day) is less than the first's (pair
\* ordering), and the year of the first otherwise.
C4_YearRule ==
    \A i \in 1..(Len(dated_txns) - 1) :
        dated_txns[i + 1][1].y =
            IF DateMDLess(dated_txns[i + 1][1], dated_txns[i][1])
            THEN dated_txns[i][1].y + 1
            ELSE dated_txns[i][1].y

\* an accepted account-style document that runs over the end of a year, and
\* holds two transactions of one year
C4_Witness ==
    /\ fmt = "acct" /\ IsAccepted
    /\ \E i \in 1..(Len(dated_txns) - 1) :
          dated_txns[i + 1][1].y = dated_txns[i][1].y + 1
    /\ \E i \in 1..(Len(dated_txns) - 1) :
          dated_txns[i + 1][1].y = dated_txns[i][1].y

\* C5: account-style validator: every dated transaction that carries an
\* extracted balance has exactly the opening marker's balance plus the
\* signed amounts up to and including it, and so has the running balance;
\* a transaction whose balance differs from the running balance stops the
\* validator where it stands.
C5_AcctBalancesAreExactSums ==
    fmt = "acct" =>
        /\ \A i \in 1..Len(dated_txns) :
              dated_txns[i][4] # None =>
                  DecEq(dated_txns[i][4],
                        ExactSum(dated_txns[1][4], SumAmounts(dated_txns, i))).v
        /\ dated_txns # <<>> =>
              DecEq(running_balance,
                    ExactSum(dated_txns[1][4],
                             SumAmounts(dated_txns, Len(dated_txns)))).v
        /\ (pc = "failed" /\ err = "BalanceMismatch"
            /\ Len(dated_txns) < Len(txns)) =>
              /\ txns[Len(dated_txns) + 1][4] # None
              /\ ~DecEq(txns[Len(dated_txns) + 1][4],
                        IF txns[Len(dated_txns) + 1][3] # None
                        THEN DecAdd(running_balance, txns[Len(dated_txns) + 1][3]).v
                        ELSE running_balance).v

\* C6: account-style: an accepted sequence holds a CLOSING BALANCE marker.
C6_AcctAcceptedHasClosing ==
    (fmt = "acct" /\ IsAccepted) =>
        \E i \in 1..Len(dated_txns) : EndsWith(dated_txns[i][2], CLOSING_SUFFIX)

\* a sequence without the marker, consumed to its end with every balance
\* matching, and refused
C6_Witness ==
    /\ fmt = "acct" /\ pc = "failed"
    /\ Len(txns) >= 2 /\ Len(dated_txns) = Len(txns)
    /\ \A i \in 1..Len(txns) : ~EndsWith(txns[i][2], CLOSING_SUFFIX)

\* C7: no RawTransaction is built from more than 3 fragments; a table whose
\* open accumulation holds more than 3 rows is never scanned to a good end:
\* the run is in the row loop or has failed with a format violation, and
\* whatever comes next (a row, the end of the rows) emits nothing and leaves
\* the run failed or in the row loop with more than 3 rows still open.
C7_AtMostThreeFragments ==
    /\ \A i \in 1..Len(frags) : Len(frags[i]) <= 3
    /\ Len(accum) > 3 =>
          \/ pc = "rows"
          \/ pc = "failed" /\ err = "FormatViolation"
    /\ Len(last.accum) > 3 =>
          /\ last.emit = <<>>
          /\ Len(accum) > 3
          /\ pc \in {"rows", "failed"}

\* a fourth row joined an accumulation and the run failed
C7_Witness ==
    pc = "failed" /\ err = "FormatViolation" /\ Len(accum) = 4 /\ frags = <<>>

\* the text of a row: its str cells concatenated, the spaces removed
RECURSIVE CellsText(_)
CellsText(cells) ==
    IF cells = <<>> THEN ""
    ELSE (IF IsStr(cells[1]) THEN cells[1].v ELSE "") \o CellsText(Tail(cells))

RowText(cells) == Remove(CellsText(cells), " ")

IsTrailerSentence(cells) ==
    IF fmt = "card" THEN RowText(cells) \in CardTrailerKeys
    ELSE RowText(cells) = Remove(RAW_TRAILER, " ")

\* the cells the trailer test reads are all str
TrailerShape(bits) ==
    IF fmt = "card" THEN AllStr(bits)
    ELSE bits[1] = None /\ AllStr(SubSeq(bits, 2, 5))

\* C8 as amended: once the header is found, a row whose tested cells are all
\* str (card-style: the three cells; account-style: the last four, the date
\* cell empty) and, concatenated with the spaces removed, equal a trailer
\* sentence ends the row loop of the table; it joins no accumulation and no
\* RawTransaction, and no later row of the table is read.
C8_TrailerEndsTable ==
    /\ (last.op = "row" /\ last.hf /\ TrailerShape(Normalize(last.row))
        /\ IsTrailerSentence(last.row)) =>
          /\ last.ctl = "break"
          /\ pc # "rows"
          /\ last.emit = <<>>
    /\ \A j \in 1..Len(accum) :
          ~(TrailerShape(accum[j]) /\ IsTrailerSentence(accum[j]))
    /\ \A i \in 1..Len(frags) : \A j \in 1..Len(frags[i]) :
          ~(TrailerShape(frags[i][j]) /\ IsTrailerSentence(frags[i][j]))

\* the trailer came while an accumulation was open, in a table after the first
C8_Witness ==
    /\ last.op = "row" /\ last.ctl = "break" /\ last.accum # <<>>
    /\ ntables = 2

\* C8 as claimed: a row whose cells, concatenated and with the whitespace
\* removed, equal a trailer sentence always ends the scan of the table.
C8_AnyTrailerEndsTable ==
    (last.op = "row" /\ IsTrailerSentence(last.row)) =>
        last.ctl = "break" /\ pc # "rows"

\* the row loop is left: by the trailer or because no row is left
LoopLeft == last.op = "eof" \/ (last.op = "row" /\ last.ctl = "break")

\* the accumulation can be flushed by maybe_flush_frags
Flushable(acc) ==
    Len(acc) <= 3 /\ \A j \in 1..Len(acc) : IsStr(acc[j][2])

\* C9 as amended: card-style, an accumulation of 1 to 3 fragments open when
\* the trailer is matched or the rows end is flushed as the last
\* RawTransaction; account-style, an accumulation open at that point makes
\* the scan fail and no RawTransaction is built from it.
C9_LeftoverAtEnd ==
    (LoopLeft /\ last.accum # <<>>) =>
        /\ (fmt = "card" /\ Flushable(last.accum)) =>
              /\ accum = <<>>
              /\ txns_raw # <<>>
              /\ txns_raw[Len(txns_raw)] =
                    <<last.accum[1][1],
                      Join("\n", [j \in 1..Len(last.accum) |-> last.accum[j][2].v]),
                      last.accum[1][3]>>
              /\ frags # <<>>
              /\ frags[Len(frags)] = last.accum
        /\ fmt = "acct" =>
              /\ pc = "failed" /\ err = "FormatViolation"
              /\ accum = last.accum
              /\ \A i \in 1..Len(frags) : frags[i] # last.accum

\* the rows of a card-style table end with two fragments open, which become
\* the second RawTransaction of the table
C9_Witness ==
    /\ fmt = "card" /\ last.op = "eof" /\ Len(last.accum) = 2
    /\ Len(txns_raw) = 2 /\ pc = "tables"

\* C9 as claimed: in both scanners an accumulation open when the row loop is
\* left is emitted as the last RawTransaction and the scan does not fail on it.
C9_LeftoverAlwaysFlushed ==
    (LoopLeft /\ last.accum # <<>> /\ Len(last.accum) <= 3) =>
        /\ frags # <<>>
        /\ frags[Len(frags)] = last.accum

\* the row is a data row of the table: read after the header, and neither
\* skipped nor the header nor the trailer
IsDataRow(bits) ==
    /\ last.hf
    /\ IF fmt = "card" THEN bits # TXN_HEADER /\ ~CardIsTrailer(bits)
       ELSE ~AcctIsCarried(bits) /\ bits # ACCT_HEADER /\ ~AcctIsTrailer(bits)

\* the start-row test of the claim
IsStartRow(bits) ==
    \/ bits[1] # None
    \/ fmt = "card" /\ IsStr(bits[2]) /\ StartsWith(bits[2].v, INTEREST_PREFIX)

\* C10 as amended: card-style, a start row that carries an amount and comes
\* while an accumulation of 1 to 3 fragments is open flushes it as one
\* RawTransaction and begins an accumulation of itself alone; account-style,
\* a dated row that comes while an accumulation is open makes the scan fail:
\* nothing is flushed and the row joins nothing.
C10_StartRowOnOpenAccumulation ==
    (last.op = "row" /\ IsDataRow(Normalize(last.row))
     /\ IsStartRow(Normalize(last.row)) /\ last.accum # <<>>) =>
        /\ (fmt = "card" /\ Normalize(last.row)[3] # None
            /\ Flushable(last.accum)) =>
              /\ last.ctl = "continue"
              /\ last.emit = last.accum
              /\ frags[Len(frags)] = last.accum
              /\ accum = <<Normalize(last.row)>>
              /\ txns_raw[Len(txns_raw)] =
                    <<last.accum[1][1],
                      Join("\n", [j \in 1..Len(last.accum) |-> last.accum[j][2].v]),
                      last.accum[1][3]>>
        /\ fmt = "acct" =>
              /\ last.ctl = "raise"
              /\ pc = "failed" /\ err = "FormatViolation"
              /\ last.emit = <<>>
              /\ accum = last.accum

\* a card-style start row came while two fragments were open
C10_Witness ==
    /\ fmt = "card" /\ last.op = "row" /\ last.ctl = "continue"
    /\ Len(last.emit) = 2 /\ Len(accum) = 1 /\ pc = "rows"

\* C10 as claimed: in both scanners a start row that comes while an
\* accumulation is open flushes it and begins an accumulation of itself
\* alone, without failing.
C10_StartRowAlwaysFlushes ==
    (last.op = "row" /\ IsDataRow(Normalize(last.row))
     /\ IsStartRow(Normalize(last.row)) /\ last.accum # <<>>
     /\ Len(last.accum) <= 3
     /\ (fmt = "card" => Normalize(last.row)[3] # None)) =>
        /\ last.ctl = "continue"
        /\ last.emit = last.accum
        /\ Len(accum) = 1

\* the RawTransaction the claim describes for a run of fragments
RawOfFragments(f) ==
    IF fmt = "card"
    THEN <<f[1][1], Join("\n", [j \in 1..Len(f) |-> f[j][2].v]), f[1][3]>>
    ELSE <<f[1][1], Join("\n", [j \in 1..Len(f) |-> f[j][2].v]),
           f[Len(f)][3], f[Len(f)][4], f[Len(f)][5]>>

\* the fragment a data row is accumulated as (account-style: after the
\* re-split of a merged date cell)
FragmentOf(row) ==
    IF fmt = "card" THEN Normalize(row) ELSE AcctResplit(Normalize(row)).v

\* C11: every RawTransaction of the table is built from the run of fragments
\* accumulated for it: the date cell of the first, the description cells
\* joined in arrival order (a line break between two), the amount cell of
\* the first (card-style) or the debit, credit and balance cells of the last
\* (account-style); the RawTransactions stand in the order their runs were
\* closed, a run is the whole accumulation (account-style: with the row that
\* closes it), and a row that closes no run joins the end of the
\* accumulation or leaves it alone.
C11_RawFromFragments ==
    /\ Len(txns_raw) <= Len(frags)
    /\ \A i \in 1..Len(txns_raw) :
          txns_raw[i] = RawOfFragments(frags[Len(frags) - Len(txns_raw) + i])
    /\ (last.op = "row" /\ last.emit # <<>>) =>
          /\ frags[Len(frags)] = last.emit
          /\ fmt = "card" =>
                last.emit = last.accum /\ accum = <<FragmentOf(last.row)>>
          /\ fmt = "acct" =>
                /\ last.emit = Append(last.accum, FragmentOf(last.row))
                /\ accum = <<>>
    /\ (last.op = "row" /\ last.emit = <<>> /\ last.ctl = "continue") =>
          \/ accum = last.accum
          \/ accum = Append(last.accum, FragmentOf(last.row))

\* an account-style RawTransaction of three fragments whose last fragment
\* alone carries the values, emitted after another RawTransaction
C11_Witness ==
    /\ fmt = "acct" /\ Len(txns_raw) = 2 /\ Len(frags) = 2
    /\ Len(frags[2]) = 3
    /\ frags[2][1][5] = None /\ frags[2][3][5] # None
    /\ txns_raw[2][5] = frags[2][3][5]
    /\ txns_raw[2][1] = frags[2][1][1]

\* the row loop stopped on the row with a failure: nothing was emitted and
\* the row joined nothing
RowRefused ==
    /\ last.ctl = "raise"
    /\ pc = "failed" /\ err = "FormatViolation"
    /\ last.emit = <<>>
    /\ accum = last.accum

\* C12: in both scanners, a data row read after the header that is no start
\* row (no date; card-style: no interest prefix either) and comes while the
\* accumulation is empty makes the scan fail: it is neither emitted nor
\* accumulated nor passed over. Card-style, a start row with an empty amount
\* cell makes the scan fail as well.
C12_ContinuationNeedsAccumulation ==
    /\ (last.op = "row" /\ IsDataRow(Normalize(last.row))
        /\ ~IsStartRow(Normalize(last.row)) /\ last.accum = <<>>) =>
          RowRefused /\ accum = <<>>
    /\ (fmt = "card" /\ last.op = "row" /\ IsDataRow(Normalize(last.row))
        /\ IsStartRow(Normalize(last.row)) /\ Normalize(last.row)[3] = None) =>
          RowRefused

\* a card-style continuation row comes right after the header of the second
\* table, the first table having given a transaction
C12_Witness ==
    /\ fmt = "card" /\ pc = "failed" /\ ntables = 2 /\ txns # <<>>
    /\ last.op = "row" /\ last.hf /\ last.accum = <<>>
    /\ Normalize(last.row)[1] = None /\ Normalize(last.row)[3] = None
    /\ IsStr(last.row[2]) /\ ~StartsWith(last.row[2].v, INTEREST_PREFIX)

\* the header row of the format
HeaderRow == IF fmt = "card" THEN TXN_HEADER ELSE ACCT_HEADER

\* C13: in both scanners, a row read while the header of the table is not
\* yet found, and which is not the header, is passed over: the loop goes on
\* to the next row, nothing is accumulated or emitted, no failure is raised
\* and the header is still not found. The row equal to the header sets
\* header_found and is passed over itself. While the header is not found the
\* accumulation and the RawTransactions of the table are empty, and the
\* header is a fragment of no RawTransaction.
C13_RowsBeforeHeaderDiscarded ==
    /\ (last.op = "row" /\ ~last.hf /\ Normalize(last.row) # HeaderRow) =>
          /\ last.ctl = "continue"
          /\ pc = "rows" /\ err = ""
          /\ ~header_found
          /\ last.emit = <<>>
          /\ accum = last.accum
          /\ special_lines = last.sl
    /\ (last.op = "row" /\ Normalize(last.row) = HeaderRow) =>
          /\ last.ctl = "continue"
          /\ pc = "rows" /\ err = ""
          /\ header_found
          /\ last.emit = <<>>
          /\ accum = last.accum
          /\ special_lines = last.sl
    /\ ~header_found => (accum = <<>> /\ txns_raw = <<>> /\ special_lines = None)
    /\ \A j \in 1..Len(accum) : accum[j] # HeaderRow
    /\ \A i \in 1..Len(frags) : \A j \in 1..Len(frags[i]) :
          frags[i][j] # HeaderRow

\* card-style, second table: a row with an amount and no date, refused when
\* it comes after the header, is passed over before it
C13_Witness ==
    /\ fmt = "card" /\ ntables = 2 /\ txns # <<>>
    /\ last.op = "row" /\ ~last.hf /\ ~header_found /\ pc = "rows"
    /\ last.row[1] = NaN /\ IsStr(last.row[3])

\* the bound of the claim on a year
WithinYears(y) == YearLow <= y /\ y <= YearHigh

\* the year the validator infers for the transaction it is about to take
PendingYear ==
    IF last_month_day # None /\ txns[Len(dated_txns) + 1][1] # None
       /\ MDLess(txns[Len(dated_txns) + 1][1], last_month_day)
    THEN last_year.v + 1
    ELSE last_year.v

\* C14: in both validators every dated transaction has a year in
\* [2000, 2100], and so has the running year the validator keeps; a
\* transaction whose year (after the rollover) would lie outside is not
\* dated: the validator stops on it with a failure.
C14_YearInRange ==
    /\ \A i \in 1..Len(dated_txns) : WithinYears(dated_txns[i][1].y)
    /\ (pc \in {"validate", "write", "done"} /\ last_year # None) =>
          WithinYears(last_year.v)
    /\ (pc \in {"write", "done"} /\ dated_txns # <<>>) =>
          dated_txns[Len(dated_txns)][1].y = last_year.v
    /\ fmt = "card" /\ opening_year # None /\ pc # "failed" =>
          WithinYears(opening_year.v)

\* account-style, a year below 2000: the opening marker is of 1999, and the
\* validator stopped on it, at the assert on the year, with nothing dated
C14_Witness ==
    /\ fmt = "acct" /\ pc = "failed" /\ err = "DateFormatError"
    /\ dated_txns = <<>> /\ txns # <<>>
    /\ txns[1] = <<MD(12, 31), "1999 OPENING BALANCE", None, Dec(0, "10000", -2)>>
    /\ last_year = None

\* account-style, a year above 2100: the opening marker is of 2100 and the
\* next transaction steps back in the calendar; the validator stopped on it
C14_WitnessAbove ==
    /\ fmt = "acct" /\ pc = "failed" /\ err = "DateFormatError"
    /\ Len(dated_txns) = 1 /\ Len(txns) > 1
    /\ last_year = IntV(2100)
    /\ PendingYear = 2101
    /\ ~AcctMismatch(txns[2][4], IF txns[2][3] # None
                                 THEN DecAdd(running_balance, txns[2][3]).v
                                 ELSE running_balance).v

\* the one transaction row of a one-table document
CaseRow ==
    IF fmt = "acct" THEN frags[Len(frags) - 1][1]
    ELSE IF frags # <<>> THEN frags[1][1] ELSE accum[1]

\* account-style: the document has one opening marker, before the row
OneOpening == fmt = "acct" /\ Len(frags) = 3

\* the card-style document of the scenario: opening balance $100.00, closing
\* balance `closing` at 06 Jan, opening year 2024, one row dated 05 Jan
CardCase(amount, closing) ==
    /\ fmt = "card"
    /\ opening_year = IntV(2024)
    /\ balance_info = [opening |-> Dec(0, "10000", -2), closing |-> closing,
                       closing_date |-> MD(1, 6)]
    /\ CaseRow = <<Str("05 Jan"), Str("desc"), Str(amount)>>

\* the account-style document of the scenario: the markers of $100.00 and
\* $80.00 (06 Jan) around one row dated 05 Jan
AcctCase(debit, balance) ==
    /\ OneOpening
    /\ CaseRow = <<Str("05 Jan"), Str("desc"), Str(debit), Str("$"), Str(balance)>>

\* the run ends accepted with dated_txns = dated, all of it written
EndsWith1(dated) ==
    /\ pc # "failed"
    /\ IsAccepted => dated_txns = dated
    /\ pc = "done" => out = [i \in 1..Len(dated) |-> CsvRow(dated[i])]

Jan5 == [y |-> 2024, m |-> 1, d |-> 5]

\* C15 as amended: the amount cell "-$20.00" is refused by both programs
\* (AmountFormatError, nothing is dated). Card-style, a debit is the cell
\* "20.00": it is emitted as -20.00 with the balance -opening + amount, so
\* with the closing balance $120.00 the output is the one DatedTransaction
\* (2024-01-05, desc, -20.00, -120.00); with the closing balance $80.00 the
\* row that passes is the payment "20.00-", emitted as
\* (2024-01-05, desc, 20.00, -80.00). Account-style, with the markers of
\* $100.00 CR and $80.00 CR and the debit 20.00 with balance $80.00 CR the
\* output is the opening marker, (2024-01-05, desc, -20.00, 80.00) and the
\* closing marker.
C15_Scenario ==
    /\ (CardCase("-$20.00", Dec(0, "8000", -2)) \/ AcctCase("-$20.00", "$80.00 CR")) =>
          /\ pc \in {"rows", "failed"}
          /\ pc = "failed" => err = "AmountFormatError"
          /\ dated_txns = <<>> /\ out = <<>>
    /\ CardCase("20.00", Dec(0, "12000", -2)) =>
          EndsWith1(<<<<Jan5, "desc", Dec(1, "2000", -2), Dec(1, "12000", -2)>>>>)
    /\ CardCase("20.00-", Dec(0, "8000", -2)) =>
          EndsWith1(<<<<Jan5, "desc", Dec(0, "2000", -2), Dec(1, "8000", -2)>>>>)
    /\ AcctCase("20.00", "$80.00 CR") =>
          EndsWith1(<<<<[y |-> 2024, m |-> 1, d |-> 1], "2024 OPENING BALANCE", None,
                        Dec(0, "10000", -2)>>,
                      <<Jan5, "desc", Dec(1, "2000", -2), Dec(0, "8000", -2)>>,
                      <<[y |-> 2024, m |-> 1, d |-> 6], "2024 CLOSING BALANCE", None,
                        Dec(0, "8000", -2)>>>>)
    /\ (fmt = "card" /\ IsAccepted) =>
          /\ Len(dated_txns) = 1
          /\ DecEq(dated_txns[1][4],
                   DecAdd(DecNeg(balance_info["opening"]).v, dated_txns[1][3]).v).v
          /\ dated_txns[1][3].s = 1 <=> CaseRow[3] = Str("20.00")

\* the card-style debit of 20.00 is written, with the closing balance $120.00
C15_Witness ==
    /\ CardCase("20.00", Dec(0, "12000", -2))
    /\ pc = "done"
    /\ out = <<<<"2024-01-05", "desc", "-20.00", "-120.00">>>>

\* C15 as claimed: with the opening balance $100.00, the row dated 05 Jan
\* with the amount -$20.00 and the closing balance $80.00 (06 Jan), the run
\* does not fail and ends with the one DatedTransaction
\* (2024-01-05, desc, -20.00, 80.00).
C15_ScenarioAsClaimed ==
    (CardCase("-$20.00", Dec(0, "8000", -2)) \/ AcctCase("-$20.00", "$80.00 CR")) =>
        /\ pc # "failed"
        /\ IsAccepted =>
              dated_txns = <<<<Jan5, "desc", Dec(1, "2000", -2), Dec(0, "8000", -2)>>>>

\* the 12 month abbreviations
MonthNames ==
    <<"Jan", "Feb", "Mar", "Apr", "May", "Jun", "Jul", "Aug", "Sep", "Oct", "Nov",
      "Dec">>

\* C16: whenever parse_dd_mmm returns on a date cell, the cell is a day
\* token of exactly two digits, one space and one of the 12 month
\* abbreviations, and the result is (the position of the abbreviation in
\* Jan..Dec, the number of the day token): a cell whose month token is not
\* one of the 12 (the empty token included) or whose day token is not two
\* digits gives no (month, day).
C16_DayMonthContract ==
    (last.op = "eof" /\ last.tail = "ok") =>
        \A i \in 1..Len(txns) :
            /\ txns[i][1].m \in 1..12
            /\ Split(frags[i][1][1].v, " ") =
                  <<Pad2(txns[i][1].d), MonthNames[txns[i][1].m]>>

\* C17 as amended: over the rows of one table the scanner only moves
\* forward: header_found is reset by nothing but the start of the next
\* table; the row loop goes on only after a row that neither broke nor
\* raised; once the trailer is matched the loop is left and no row of that
\* table is read any more. Every table starts afresh: header not found,
\* nothing accumulated, no RawTransaction.
C17_ForwardOnlyPerTable ==
    [][/\ (header_found /\ ~header_found') => (pc = "tables" /\ pc' = "rows")
       /\ (pc = "rows" /\ pc' = "rows") =>
             /\ ntables' = ntables
             /\ last'.op = "row" /\ last'.ctl = "continue"
       /\ (pc = "rows" /\ last'.ctl = "break") => pc' \in {"tables", "failed"}
       /\ (pc # "rows" /\ pc' = "rows") =>
             /\ pc = "tables"
             /\ ntables' = ntables + 1
             /\ ~header_found' /\ accum' = <<>> /\ txns_raw' = <<>>
             /\ special_lines' = None
       /\ (pc # "rows") => (frags' = frags /\ txns' = txns)]_vars

\* an account-style table has ended at its trailer with a transaction, and
\* another table may follow
C17_Witness ==
    /\ fmt = "acct" /\ pc = "tables" /\ ntables = 1
    /\ last.op = "row" /\ last.ctl = "break" /\ header_found
    /\ txns # <<>>

\* C17 as claimed: over the whole document header_found, once set, stays
\* set, and once a trailer is matched no row is read any more.
C17_ForwardOnlyOverDocument ==
    [][/\ header_found => header_found'
       /\ (last.op = "row" /\ last.ctl = "break") => pc' # "rows"]_vars

\* account-style: the row of the latest event is a data row that passed the
\* re-split and the date test, so that it was appended to the accumulation
IsFragment ==
    /\ fmt = "acct" /\ last.op = "row"
    /\ IsDataRow(Normalize(last.row))
    /\ AcctResplit(Normalize(last.row)).ok
    /\ AcctAccumAssert(FragmentOf(last.row), last.accum)

\* the lines the countdown stands at when the row is counted: the declared
\* count when the description is a special one, the count left over
\* otherwise (0: no countdown is active)
LinesLeft ==
    IF Truthy(SpecialGet(FragmentOf(last.row)[2].v))
    THEN SpecialGet(FragmentOf(last.row)[2].v).v
    ELSE IF Truthy(last.sl) THEN last.sl.v ELSE 0

\* the row closed the accumulation as one RawTransaction
RowClosed ==
    /\ last.ctl = "continue"
    /\ last.emit = Append(last.accum, FragmentOf(last.row))
    /\ frags[Len(frags)] = last.emit
    /\ accum = <<>>

\* the row joined the accumulation, which stays open
RowAwaitsMore ==
    /\ last.ctl = "continue" /\ pc = "rows"
    /\ last.emit = <<>>
    /\ accum = Append(last.accum, FragmentOf(last.row))

\* C18: account-style. A row whose description is a key of SPECIAL_LINE_MAP
\* starts a countdown of 2; while a countdown is active each row counts one
\* line, whatever its value cells hold: before the last line the row joins
\* the accumulation and nothing is closed, on the last line the
\* accumulation is closed as one RawTransaction and the countdown is over
\* (0). With no countdown active, a row with a balance closes the
\* accumulation, a row with no balance, debit and credit joins it, and a
\* row with no balance but a debit or a credit is refused. (A close of more
\* than 3 fragments is refused in both cases.)
C18_FixedLineCount ==
    /\ fmt = "acct" =>
          /\ special_lines \in {None, IntV(0), IntV(1)}
          /\ (pc = "rows" /\ Truthy(special_lines)) => accum # <<>>
    /\ (IsFragment /\ LinesLeft > 0) =>
          /\ special_lines = IntV(LinesLeft - 1)
          /\ LinesLeft > 1 => RowAwaitsMore
          /\ (LinesLeft = 1 /\ Len(last.accum) < 3) => RowClosed
    /\ (IsFragment /\ LinesLeft = 0) =>
          /\ special_lines = last.sl
          /\ (FragmentOf(last.row)[5] # None /\ Len(last.accum) < 3) => RowClosed
          /\ SubSeq(FragmentOf(last.row), 3, 5) = <<None, None, None>> =>
                RowAwaitsMore
          /\ (FragmentOf(last.row)[5] = None
              /\ SubSeq(FragmentOf(last.row), 3, 4) # <<None, None>>) =>
                /\ last.ctl = "raise" /\ pc = "failed" /\ err = "FormatViolation"
                /\ last.emit = <<>>

\* the second line of a special record, which has a credit cell and no
\* balance, closes the record of two fragments; the countdown is over
C18_Witness ==
    /\ IsFragment /\ last.sl = IntV(1) /\ special_lines = IntV(0)
    /\ Len(last.emit) = 2
    /\ FragmentOf(last.row)[5] = None /\ FragmentOf(last.row)[4] # None
    /\ pc = "rows"

\* the carried-balance rows of the claim: the three value cells are str and,
\* concatenated with the spaces removed, begin with BALANCE CARRIED FORWARD,
\* or the description begins with BALANCE BROUGHT FORWARD
IsCarriedRow(cells) ==
    \/ /\ \A i \in 3..5 : IsStr(cells[i])
       /\ StartsWith(RowText(SubSeq(cells, 3, 5)), "BALANCECARRIEDFORWARD")
    \/ /\ IsStr(cells[2])
       /\ StartsWith(cells[2].v, "BALANCE BROUGHT FORWARD")

\* C19: account-style, the step of the row loop that reads a carried-balance
\* row changes nothing of the scanner: header_found, the accumulation, the
\* countdown and the RawTransactions are as before, nothing fails and the
\* loop goes on.
C19_CarriedRowFrame ==
    [][(fmt = "acct" /\ pc = "rows" /\ last'.op = "row"
        /\ <<header_found, accum, txns_raw, special_lines, frags, txns, pc, err>>
              # <<header_found', accum', txns_raw', special_lines', frags', txns',
                  pc', err'>>) =>
          ~IsCarriedRow(last'.row)]_vars

\* a carried-balance row was read in the middle of a special record, the
\* countdown active
C19_Witness ==
    /\ fmt = "acct" /\ pc = "rows"
    /\ last.op = "row" /\ IsCarriedRow(last.row) /\ last.hf
    /\ accum # <<>> /\ accum = last.accum
    /\ special_lines = IntV(1) /\ last.sl = IntV(1)
    /\ frags # <<>>

\* the year a marker's description begins with
LabelYear(desc, suffix) == IntOf(SubSeq(desc, 1, Len(desc) - Len(suffix))).v.v

\* C20: account-style validator. The first dated transaction is an OPENING
\* BALANCE marker, dated in the year of its label, and no later one is: a
\* sequence that begins with another transaction, or holds a second opening
\* marker, is refused there. Every CLOSING BALANCE marker that is dated is
\* dated in the year of its label: a closing marker whose label differs from
\* the year inferred for it is refused.
C20_OpeningAndClosingMarkers ==
    fmt = "acct" =>
        /\ dated_txns # <<>> =>
              /\ EndsWith(dated_txns[1][2], OPENING_SUFFIX)
              /\ dated_txns[1][1].y = LabelYear(dated_txns[1][2], OPENING_SUFFIX)
        /\ \A i \in 2..Len(dated_txns) : ~EndsWith(dated_txns[i][2], OPENING_SUFFIX)
        /\ \A i \in 1..Len(dated_txns) :
              EndsWith(dated_txns[i][2], CLOSING_SUFFIX) =>
                  dated_txns[i][1].y = LabelYear(dated_txns[i][2], CLOSING_SUFFIX)
        /\ IsAccepted => dated_txns # <<>>

\* the validator stopped on a closing marker of the right balance whose
\* label says 2024 where the inferred year is 2025
C20_Witness ==
    /\ fmt = "acct" /\ pc = "failed" /\ err = "DateFormatError"
    /\ Len(txns) = 3 /\ Len(dated_txns) = 2
    /\ EndsWith(txns[3][2], CLOSING_SUFFIX)
    /\ LabelYear(txns[3][2], CLOSING_SUFFIX) = 2024
    /\ last_year = IntV(2024)
    /\ MDLess(txns[3][1], last_month_day)
    /\ DecEq(txns[3][4], running_balance).v

====
